---- MODULE Spec2Model ----
(***************************************************************************)
(* A model of two components of the LowLevelDesign repository:             *)
(*   - the Strategy-pattern sorting context and its three algorithms       *)
(*     (BehaviorPattern/StrategyDesignPattern/Problem_1_SortingStrategy/   *)
(*      client.py), specification SortSpec;                                *)
(*   - the parking lot registry, its tickets and its rate schedule         *)
(*     (RealWorldProblems/ParkingLot/parking.py), specifications ParkSpec  *)
(*     (all calls at one instant), ParkClockSpec (time passes) and FeeSpec *)
(*     (the rate schedule called on its own).                              *)
(* Lists are 1-based here and 0-based in the source; money is in cents;    *)
(* time is counted in ticks of 1/TicksPerHour hour.                        *)
(***************************************************************************)
EXTENDS Integers, Sequences, FiniteSets, TLC

VARIABLES
    \* ---- sorting (client.py) ----
    input,          \* the list as it was handed to SortingContext.sort
    array,          \* the list object, mutated in place
    strategy,       \* SortingContext._sorting_strategy
    sortStat,       \* what the last sort call did: strategy run, passes, swaps
    sortCtx,        \* whether the SortingContext constructor returned an object
    sortErr,        \* the exception raised by the last SortingContext call
    \* ---- rate schedule called on its own (parking.py ParkingRate) ----
    feeHours,       \* argument hours, in ticks
    feeVehicle,     \* argument vehicle (its class)
    feeSpot,        \* argument spot (its class, or None)
    feeResult,      \* value returned by calculate, None before the call
    \* ---- parking lot (parking.py) ----
    spots,          \* ParkingLot.spots: id -> spot object
    spotOrder,      \* the key order of the dict ParkingLot.spots
    tickets,        \* ParkingLot.tickets: ticket_no -> ticket object
    ticket_seed,    \* ParkingTicket.ticket_seed
    vticket,        \* Vehicle.ticket of every vehicle (a ticket_no or None)
    now,            \* datetime.now(), in ticks
    nAdds,          \* number of registration calls (add_parking_spot,
                    \* add_entrance, add_exit) so far
    lastOp,         \* the last call on the lot: its name, the vehicle of a
                    \* park_vehicle call, and the value it returned
    entrances,      \* ParkingLot.entrances: id -> Entrance object
    exits,          \* ParkingLot.exits: id -> Exit object
    \* ---- one call of Exit.validate_ticket, statement by statement ----
    exitPc,         \* the statement of validate_ticket reached
    exitTicket,     \* its argument ticket (a ticket_no), None outside a call
    exitFee,        \* its local fee
    payment,        \* its local payment object
    \* ---- weather station (WeatherNotification.py) ----
    stationWeather,   \* WeatherStation._weather
    stationObservers, \* WeatherStation._observers
    receiverWeather,  \* Receiver._weather of every receiver
    weatherLast,      \* the last call on the station: its name, its argument
                      \* and the update calls every receiver got in it
    \* ---- products and their customers (Notification.py) ----
    quantity,       \* Product.quantity of every product
    observers,      \* Product.observers of every product
    stockLast,      \* the last call on a product: its name, the product, its
                    \* argument, and the messages every customer got in it
    lastMsg,        \* the kind of the last message every product sent
    \* ---- pizza shop (Pizza.py, UltraOptimizedPizza.py) ----
    pizza,          \* the pizza object last made: its size and the add-ons
                    \* wrapped around it, innermost first
    cart,           \* the list of CartItems made so far
    orders,         \* the Order objects made so far
    next_id         \* Order._next_id

sortVars == <<input, array, strategy, sortStat, sortCtx, sortErr>>
feeVars  == <<feeHours, feeVehicle, feeSpot, feeResult>>
parkVars == <<spots, spotOrder, tickets, ticket_seed, vticket, now, nAdds, lastOp>>
gateVars == <<entrances, exits>>
exitVars == <<exitPc, exitTicket, exitFee, payment>>
weatherVars == <<stationWeather, stationObservers, receiverWeather, weatherLast>>
stockVars   == <<quantity, observers, stockLast, lastMsg>>
pizzaVars   == <<pizza, cart, orders, next_id>>
restVars == <<weatherVars, stockVars, pizzaVars>>
vars     == <<sortVars, feeVars, parkVars, gateVars, exitVars, restVars>>

None == "None"

\* None in a place that otherwise holds a number (a ticket number, a time,
\* a fee)
NoneInt == -1

\* ------------------------------------------------------------------------
\* Bounds of the model
\* ------------------------------------------------------------------------
MaxLen      == 4    \* longest list handed to a sort
MaxKey      == 3    \* list elements are 1..MaxKey
MaxFeeTicks == 12   \* longest elapsed time passed to calculate, in ticks
MinFeeTicks == 3    \* elapsed times down to -MinFeeTicks ticks are passed
MaxSpotId   == 2    \* spot ids are 1..MaxSpotId
MaxAdds     == 2    \* add_parking_spot is called at most MaxAdds times
MaxTickets  == 2    \* park_vehicle issues at most MaxTickets tickets
MaxTime     == 1    \* the clock stops after MaxTime ticks
LongStay    == 5    \* ticks of the one long wait of a run
MaxFrames   == 3    \* nested calls the interpreter allows one sort call: its
                    \* recursion limit (1000 by default), scaled to MaxLen

\* ------------------------------------------------------------------------
\* Sorting strategies
\* ------------------------------------------------------------------------
Strategies == {"BUBBLE", "MERGE", "QUICK"}

\* An element is an integer (key); tag is its position in the input, which
\* the algorithms never read (it lets the model tell equal keys apart).
Elem(k, t) == [key |-> k, tag |-> t]

Tagged(ks) == [i \in 1..Len(ks) |-> Elem(ks[i], i)]

Keys(a) == [i \in 1..Len(a) |-> a[i].key]

\* array[i], array[j] = array[j], array[i]   (i, j are 0-based indices)
_swap(a, i, j) == [a EXCEPT ![i + 1] = a[j + 1], ![j + 1] = a[i + 1]]

\* BubbleInner with the loop bound one short: for i in range(n - 1)
RECURSIVE BubbleInnerShort(_, _, _, _)
BubbleInnerShort(a, n, i, swaps) ==
    IF i >= n - 1 THEN [arr |-> a, swaps |-> swaps]
    ELSE IF a[i + 1].key > a[i + 2].key
         THEN BubbleInnerShort(_swap(a, i, i + 1), n, i + 1, swaps + 1)
         ELSE BubbleInnerShort(a, n, i + 1, swaps)

\* Bubble sort, inner loop: for i in range(n), from index i on.
RECURSIVE BubbleInner(_, _, _, _)
BubbleInner(a, n, i, swaps) ==
    IF i >= n THEN [arr |-> a, swaps |-> swaps]
    ELSE IF a[i + 1].key > a[i + 2].key
         THEN BubbleInner(_swap(a, i, i + 1), n, i + 1, swaps + 1)
         ELSE BubbleInner(a, n, i + 1, swaps)

\* BubbleOuter without the break after a pass that swapped nothing
RECURSIVE BubbleOuterNoBreak(_, _, _, _)
BubbleOuterNoBreak(a, n, passes, swaps) ==
    IF n < 0 THEN [arr |-> a, passes |-> passes, swaps |-> swaps]
    ELSE LET r == BubbleInner(a, n, 0, 0) IN
         BubbleOuterNoBreak(r.arr, n - 1, passes + 1, swaps + r.swaps)

\* Bubble sort, outer loop: for n in reversed(range(len(array))), from n on;
\* breaks after the first pass without a swap.
RECURSIVE BubbleOuter(_, _, _, _)
BubbleOuter(a, n, passes, swaps) ==
    IF n < 0 THEN [arr |-> a, passes |-> passes, swaps |-> swaps]
    ELSE LET r == BubbleInner(a, n, 0, 0) IN
         IF r.swaps = 0
         THEN [arr |-> r.arr, passes |-> passes + 1, swaps |-> swaps]
         ELSE BubbleOuter(r.arr, n - 1, passes + 1, swaps + r.swaps)

BubbleSort(a) == BubbleOuter(a, Len(a) - 1, 0, 0)

\* Merge taking from the right half on ties: left[i] < right[j]
RECURSIVE MergeRightOnTies(_, _, _, _, _)
MergeRightOnTies(left, right, i, j, out) ==
    IF i < Len(left) /\ j < Len(right)
    THEN IF left[i + 1].key < right[j + 1].key
         THEN MergeRightOnTies(left, right, i + 1, j, Append(out, left[i + 1]))
         ELSE MergeRightOnTies(left, right, i, j + 1, Append(out, right[j + 1]))
    ELSE IF i < Len(left)
         THEN MergeRightOnTies(left, right, i + 1, j, Append(out, left[i + 1]))
         ELSE IF j < Len(right)
              THEN MergeRightOnTies(left, right, i, j + 1, Append(out, right[j + 1]))
              ELSE out

\* Merge sort, the three merge loops: i, j index left and right (0-based),
\* out is array[0..k-1] already written.
RECURSIVE Merge(_, _, _, _, _)
Merge(left, right, i, j, out) ==
    IF i < Len(left) /\ j < Len(right)
    THEN IF left[i + 1].key <= right[j + 1].key
         THEN Merge(left, right, i + 1, j, Append(out, left[i + 1]))
         ELSE Merge(left, right, i, j + 1, Append(out, right[j + 1]))
    ELSE IF i < Len(left)
         THEN Merge(left, right, i + 1, j, Append(out, left[i + 1]))
         ELSE IF j < Len(right)
              THEN Merge(left, right, i, j + 1, Append(out, right[j + 1]))
              ELSE out

RECURSIVE _merge_sort(_)
_merge_sort(a) ==
    LET n == Len(a) IN
    IF n > 1
    THEN LET mid   == n \div 2
             left  == SubSeq(a, 1, mid)
             right == SubSeq(a, mid + 1, n)
         IN Merge(_merge_sort(left), _merge_sort(right), 0, 0, <<>>)
    ELSE a

MergeSort(a) == _merge_sort(a)

\* PartitionLoop with the comparison array[j] <= pivot
RECURSIVE PartitionLoopLessEqual(_, _, _, _, _)
PartitionLoopLessEqual(a, pivot, i, j, high) ==
    IF j >= high THEN [arr |-> a, i |-> i]
    ELSE IF a[j + 1].key <= pivot.key
         THEN PartitionLoopLessEqual(_swap(a, i + 1, j), pivot, i + 1, j + 1, high)
         ELSE PartitionLoopLessEqual(a, pivot, i, j + 1, high)

\* Quick sort, the loop of _partition: for j in range(low, high), from j on;
\* i is the last index of the "less than pivot" zone.
RECURSIVE PartitionLoop(_, _, _, _, _)
PartitionLoop(a, pivot, i, j, high) ==
    IF j >= high THEN [arr |-> a, i |-> i]
    ELSE IF a[j + 1].key < pivot.key
         THEN PartitionLoop(_swap(a, i + 1, j), pivot, i + 1, j + 1, high)
         ELSE PartitionLoop(a, pivot, i, j + 1, high)

_partition(a, low, high) ==
    LET pivot == a[high + 1]
        r     == PartitionLoop(a, pivot, low - 1, low, high)
    IN [arr |-> _swap(r.arr, r.i + 1, high), pi |-> r.i + 1]

RECURSIVE _quick_sort(_, _, _)
_quick_sort(a, low, high) ==
    IF low < high
    THEN LET p == _partition(a, low, high)
             l == _quick_sort(p.arr, low, p.pi - 1)
         IN _quick_sort(l, p.pi + 1, high)
    ELSE a

QuickSort(a) == _quick_sort(a, 0, Len(a) - 1)

\* the number of _quick_sort calls open at once in _quick_sort(a, low, high)
RECURSIVE QuickDepth(_, _, _)
QuickDepth(a, low, high) ==
    IF low < high
    THEN LET p  == _partition(a, low, high)
             l  == _quick_sort(p.arr, low, p.pi - 1)
             dl == QuickDepth(p.arr, low, p.pi - 1)
             dr == QuickDepth(l, p.pi + 1, high)
         IN 1 + (IF dl >= dr THEN dl ELSE dr)
    ELSE 1

\* the number of _merge_sort calls open at once in _merge_sort(a)
RECURSIVE MergeDepth(_)
MergeDepth(a) ==
    LET n == Len(a) IN
    IF n > 1
    THEN LET mid == n \div 2
             dl  == MergeDepth(SubSeq(a, 1, mid))
             dr  == MergeDepth(SubSeq(a, mid + 1, n))
         IN 1 + (IF dl >= dr THEN dl ELSE dr)
    ELSE 1

\* arguments that are no SortingStrategy: None and an object of another class
NotStrategies == {None, "NotAStrategy"}

\* isinstance(s, SortingStrategy)
IsSortingStrategy(s) == s \in Strategies

\* SortingStrategy.sort of the strategy object s
StrategySort(s, a) ==
    CASE s = "BUBBLE" -> BubbleSort(a).arr
      [] s = "MERGE"  -> MergeSort(a)
      [] s = "QUICK"  -> QuickSort(a)

NoStat == [by |-> None, passes |-> 0, swaps |-> 0]

StatOf(s, a) ==
    IF s = "BUBBLE"
    THEN [by |-> s, passes |-> BubbleSort(a).passes, swaps |-> BubbleSort(a).swaps]
    ELSE [by |-> s, passes |-> 0, swaps |-> 0]

\* All lists of at most n integers of 1..MaxKey
RECURSIVE SeqsUpTo(_)
SeqsUpTo(n) ==
    IF n = 0 THEN {<<>>}
    ELSE LET shorter == SeqsUpTo(n - 1) IN
         shorter \cup {Append(s, k) : s \in {t \in shorter : Len(t) = n - 1}, k \in 1..MaxKey}

\* ------------------------------------------------------------------------
\* Rate schedule
\* ------------------------------------------------------------------------
TicksPerHour == 2

VehicleKinds == {"Car", "Van", "Truck", "Motorcycle"}
SpotKinds    == {"Handicapped", "Compact", "Large", "MotorcycleSpot"}

\* calculate with the hours rounded down: hrs = int(hours // 1)
calculateFloor(hours, vehicle, spot) ==
    LET hrs == hours \div TicksPerHour
        f1  == IF hrs >= 1 THEN 400 ELSE 0
        f2  == IF hrs >= 2 THEN 350 ELSE 0
        f3  == IF hrs >= 3 THEN 350 ELSE 0
        f4  == IF hrs > 3 THEN (hrs - 3) * 250 ELSE 0
    IN f1 + f2 + f3 + f4

\* calculate with the third hour charged only past it: if hrs > 3
calculateLateThird(hours, vehicle, spot) ==
    LET hrs == -((-hours) \div TicksPerHour)
        f1  == IF hrs >= 1 THEN 400 ELSE 0
        f2  == IF hrs >= 2 THEN 350 ELSE 0
        f3  == IF hrs > 3 THEN 350 ELSE 0
        f4  == IF hrs > 3 THEN (hrs - 3) * 250 ELSE 0
    IN f1 + f2 + f3 + f4

\* calculate with the hours past the third charged in place of the first
\* three
calculateOnlyExtra(hours, vehicle, spot) ==
    LET hrs == -((-hours) \div TicksPerHour)
        f1  == IF hrs >= 1 THEN 400 ELSE 0
        f2  == IF hrs >= 2 THEN 350 ELSE 0
        f3  == IF hrs >= 3 THEN 350 ELSE 0
    IN IF hrs > 3 THEN (hrs - 3) * 250 ELSE f1 + f2 + f3

\* ParkingRate.calculate; hours in ticks, result in cents.
\* hrs = int(-(-hours // 1)): the ceiling of hours.
calculate(hours, vehicle, spot) ==
    LET hrs == -((-hours) \div TicksPerHour)
        f1  == IF hrs >= 1 THEN 400 ELSE 0
        f2  == IF hrs >= 2 THEN 350 ELSE 0
        f3  == IF hrs >= 3 THEN 350 ELSE 0
        f4  == IF hrs > 3 THEN (hrs - 3) * 250 ELSE 0
    IN f1 + f2 + f3 + f4

\* the components a specification leaves aside stay in these states
FeeIdle ==
    /\ feeHours = 0
    /\ feeVehicle = "Car"
    /\ feeSpot = None
    /\ feeResult = NoneInt

SortIdle ==
    /\ input = <<>>
    /\ array = <<>>
    /\ strategy = "BUBBLE"
    /\ sortStat = NoStat
    /\ sortCtx = "live"
    /\ sortErr = None

\* the members of the Weather enum
Weathers == {"SUNNY", "RAINY", "WINDY", "CLOUDY"}

\* the receiver objects of the demo: a PhoneObserver, a TVObserver and a
\* RadioObserver
Receivers == {"phone", "tv", "radio"}

\* no call on the station yet
NoWeatherCall == [name |-> None, arg |-> None, updates |-> [o \in Receivers |-> 0]]

\* WeatherStation.__init__ and Receiver.__init__
WeatherIdle ==
    /\ stationWeather = None
    /\ stationObservers = {}
    /\ receiverWeather = [o \in Receivers |-> None]
    /\ weatherLast = NoWeatherCall

\* two Product objects and two Customer objects
Products == {"iphone", "galaxy"}
Customers == {"alice", "bob"}

\* no call on a product yet
NoStockCall ==
    [name |-> None, product |-> None, arg |-> 0, was |-> 0, msg |-> None,
     updates |-> [c \in Customers |-> 0]]

\* Product.__init__ with the default quantity
StockIdle ==
    /\ quantity = [p \in Products |-> 0]
    /\ observers = [p \in Products |-> {}]
    /\ stockLast = NoStockCall
    /\ lastMsg = [p \in Products |-> None]

\* no pizza, no cart item, no order; Order._next_id = 1
PizzaIdle ==
    /\ pizza = <<>>
    /\ cart = <<>>
    /\ orders = <<>>
    /\ next_id = 1

RestIdle == WeatherIdle /\ StockIdle /\ PizzaIdle

\* ------------------------------------------------------------------------
\* Parking lot
\* ------------------------------------------------------------------------
TicketSeed0 == 1000

\* The vehicle objects of the model, one of each class
Vehicles == {"car", "van", "truck", "moto"}

KindOf(v) ==
    CASE v = "car"   -> "Car"
      [] v = "van"   -> "Van"
      [] v = "truck" -> "Truck"
      [] v = "moto"  -> "Motorcycle"

SpotIds == 1..MaxSpotId

\* ParkingSpot.__init__
NewSpot(kind) == [kind |-> kind, is_free |-> TRUE, vehicle |-> None]

\* can_fit with the Compact test of the third line dropped
can_fitCarAnywhere(vk, sk) ==
    IF vk = "Motorcycle" /\ sk = "MotorcycleSpot" THEN TRUE
    ELSE IF vk = "Truck" \/ (vk = "Van" /\ sk = "Large") THEN TRUE
    ELSE IF vk = "Car" \/ sk = "Handicapped" THEN TRUE
    ELSE FALSE

\* ParkingLot.can_fit on the classes of vehicle and spot. Python's `and`
\* binds tighter than `or`, so the three tests read
\*   Motorcycle and MotorcycleSpot
\*   Truck or (Van and Large)
\*   (Car and Compact) or Handicapped
can_fit(vk, sk) ==
    IF vk = "Motorcycle" /\ sk = "MotorcycleSpot" THEN TRUE
    ELSE IF vk = "Truck" \/ (vk = "Van" /\ sk = "Large") THEN TRUE
    ELSE IF (vk = "Car" /\ sk = "Compact") \/ sk = "Handicapped" THEN TRUE
    ELSE FALSE

\* FirstFit without the return inside the loop: the last fitting spot wins
RECURSIVE FirstFitLast(_, _)
FirstFitLast(v, i) ==
    IF i > Len(spotOrder) THEN 0
    ELSE LET later == FirstFitLast(v, i + 1) IN
         IF later # 0 THEN later
         ELSE IF spots[spotOrder[i]].is_free
                 /\ can_fit(KindOf(v), spots[spotOrder[i]].kind)
              THEN i
              ELSE 0

\* The loop of park_vehicle over self.spots.values(), from position i on:
\* the position of the first free spot the vehicle fits, 0 when there is none.
RECURSIVE FirstFit(_, _)
FirstFit(v, i) ==
    IF i > Len(spotOrder) THEN 0
    ELSE IF spots[spotOrder[i]].is_free /\ can_fit(KindOf(v), spots[spotOrder[i]].kind)
         THEN i
         ELSE FirstFit(v, i + 1)

\* assign_vehicle without self.vehicle = vehicle
assign_vehicleNoOccupant(spot, v) ==
    IF spot.is_free THEN [spot EXCEPT !.is_free = FALSE] ELSE spot

\* <Kind>.assign_vehicle
assign_vehicle(spot, v) ==
    IF spot.is_free THEN [spot EXCEPT !.is_free = FALSE, !.vehicle = v] ELSE spot

\* remove_vehicle that marks the spot free and keeps the vehicle reference
remove_vehicleKeepsOccupant(spot) ==
    IF ~spot.is_free /\ spot.vehicle # None
    THEN [spot EXCEPT !.is_free = TRUE]
    ELSE spot

\* ParkingSpot.remove_vehicle
remove_vehicle(spot) ==
    IF ~spot.is_free /\ spot.vehicle # None
    THEN [spot EXCEPT !.vehicle = None, !.is_free = TRUE]
    ELSE spot

\* ParkingTicket.__init__ (without the seed increment and assign_ticket)
NewTicket(no, slot_no, v, t) ==
    [ticket_no |-> no, slot_no |-> slot_no, vehicle |-> v, entry_time |-> t,
     exit_time |-> NoneInt, amount |-> 0, status |-> "ISSUED", payment |-> None]

\* ParkingLot.get_spot
get_spot(id) == IF id \in DOMAIN spots THEN spots[id] ELSE None

\* free_slot that clears every spot of the registry
free_slotAll(id) ==
    IF id \in DOMAIN spots
    THEN [o \in DOMAIN spots |-> remove_vehicle(spots[o])]
    ELSE spots

\* the registry after ParkingLot.free_slot(id)
free_slot(id) ==
    IF id \in DOMAIN spots
    THEN [spots EXCEPT ![id] = remove_vehicle(spots[id])]
    ELSE spots

Op(name, arg, ret) == [name |-> name, arg |-> arg, ret |-> ret]

\* no payment object: validate_ticket is not running
NoPayment == [kind |-> None, amount |-> NoneInt, status |-> None]

\* no call of Exit.validate_ticket in progress
ExitIdle ==
    /\ exitPc = "idle"
    /\ exitTicket = NoneInt
    /\ exitFee = NoneInt
    /\ payment = NoPayment

ParkIdle ==
    /\ spots = <<>>
    /\ spotOrder = <<>>
    /\ tickets = <<>>
    /\ ticket_seed = TicketSeed0
    /\ vticket = [v \in Vehicles |-> NoneInt]
    /\ now = 0
    /\ nAdds = 0
    /\ lastOp = Op("init", None, NoneInt)
    /\ entrances = <<>>
    /\ exits = <<>>
    /\ ExitIdle

\* ParkingLot.get_instance() on first access: an empty lot
ParkInit ==
    /\ ParkIdle
    /\ RestIdle
    /\ SortIdle
    /\ FeeIdle

\* add_parking_spot that keeps a spot already registered under the id
AddParkingSpotKeepsFirst(id, kind) ==
    /\ id <= Len(spotOrder) + 1
    /\ nAdds < MaxAdds
    /\ nAdds' = nAdds + 1
    /\ spots' = spots @@ (id :> NewSpot(kind))
    /\ spotOrder' = IF id \in DOMAIN spots THEN spotOrder ELSE Append(spotOrder, id)
    /\ lastOp' = Op("add_parking_spot", None, NoneInt)
    /\ UNCHANGED <<tickets, ticket_seed, vticket, now, sortVars, feeVars, gateVars, exitVars, restVars>>

\* ParkingLot.add_parking_spot(Kind(id)): a dict store; a new key goes to
\* the end of the key order, an existing key keeps its place.
\* Ids are labels the code only uses as dict keys: a new spot takes the next
\* unused number (any other numbering is a renaming of such a run), an
\* existing id may be registered again.
AddParkingSpot(id, kind) ==
    /\ id <= Len(spotOrder) + 1
    /\ nAdds < MaxAdds
    /\ nAdds' = nAdds + 1
    /\ spots' = (id :> NewSpot(kind)) @@ spots
    /\ spotOrder' = IF id \in DOMAIN spots THEN spotOrder ELSE Append(spotOrder, id)
    /\ lastOp' = Op("add_parking_spot", None, NoneInt)
    /\ UNCHANGED <<tickets, ticket_seed, vticket, now, sortVars, feeVars, gateVars, exitVars, restVars>>

\* Entrance(id) and Exit(id) objects; obj tells two objects of one id apart:
\* it is the number of the registration call the object was made for
NewGate(id, n) == [id |-> id, obj |-> n]

\* ParkingLot.add_entrance(Entrance(id)): a dict store under the object's id
AddEntrance(id) ==
    /\ id <= Cardinality(DOMAIN entrances) + 1
    /\ nAdds < MaxAdds
    /\ nAdds' = nAdds + 1
    /\ entrances' = (id :> NewGate(id, nAdds + 1)) @@ entrances
    /\ lastOp' = Op("add_entrance", None, NoneInt)
    /\ UNCHANGED <<spots, spotOrder, tickets, ticket_seed, vticket, now, exits,
                   sortVars, feeVars, exitVars, restVars>>

\* ParkingLot.add_exit(Exit(id)): a dict store under the object's id
AddExit(id) ==
    /\ id <= Cardinality(DOMAIN exits) + 1
    /\ nAdds < MaxAdds
    /\ nAdds' = nAdds + 1
    /\ exits' = (id :> NewGate(id, nAdds + 1)) @@ exits
    /\ lastOp' = Op("add_exit", None, NoneInt)
    /\ UNCHANGED <<spots, spotOrder, tickets, ticket_seed, vticket, now, entrances,
                   sortVars, feeVars, exitVars, restVars>>

\* ParkFull that also drops the ticket reference of the vehicle turned away
ParkFullDropsTicket(v) ==
    /\ lastOp' = Op("park_vehicle", v, NoneInt)
    /\ vticket' = [vticket EXCEPT ![v] = NoneInt]
    /\ UNCHANGED <<spots, spotOrder, tickets, ticket_seed, now, nAdds,
                   sortVars, feeVars, gateVars, exitVars, restVars>>

\* park_vehicle, the loop falls through: "lot is full", return None
ParkFull(v) ==
    /\ lastOp' = Op("park_vehicle", v, NoneInt)
    /\ UNCHANGED <<spots, spotOrder, tickets, ticket_seed, vticket, now, nAdds,
                   sortVars, feeVars, gateVars, exitVars, restVars>>

\* ParkAssign without ParkingTicket.ticket_seed += 1
ParkAssignSameSeed(v, i) ==
    LET id == spotOrder[i]
        ticket == NewTicket(ticket_seed, id, v, now)
    IN /\ spots' = [spots EXCEPT ![id] = assign_vehicle(spots[id], v)]
       /\ ticket_seed' = ticket_seed
       /\ vticket' = [vticket EXCEPT ![v] = ticket.ticket_no]
       /\ tickets' = (ticket.ticket_no :> ticket) @@ tickets
       /\ lastOp' = Op("park_vehicle", v, ticket.ticket_no)
       /\ UNCHANGED <<spotOrder, now, nAdds, sortVars, feeVars, gateVars, exitVars, restVars>>

\* park_vehicle, the body of the loop for the spot at position i:
\* assign the vehicle, issue the ticket, record it, return it
ParkAssign(v, i) ==
    LET id == spotOrder[i]
        ticket == NewTicket(ticket_seed, id, v, now)
    IN /\ spots' = [spots EXCEPT ![id] = assign_vehicle(spots[id], v)]
       /\ ticket_seed' = ticket_seed + 1
       /\ vticket' = [vticket EXCEPT ![v] = ticket.ticket_no]
       /\ tickets' = (ticket.ticket_no :> ticket) @@ tickets
       /\ lastOp' = Op("park_vehicle", v, ticket.ticket_no)
       /\ UNCHANGED <<spotOrder, now, nAdds, sortVars, feeVars, gateVars, exitVars, restVars>>

\* ParkingLot.park_vehicle(v) (Entrance.get_ticket)
ParkVehicle(v) ==
    LET i == FirstFit(v, 1) IN
    IF i = 0
    THEN ParkFull(v)
    ELSE /\ Cardinality(DOMAIN tickets) < MaxTickets
         /\ ParkAssign(v, i)

\* ParkingLot.free_slot(id), id registered or not
FreeSlot(id) ==
    /\ spots' = free_slot(id)
    /\ lastOp' = Op("free_slot", None, NoneInt)
    /\ UNCHANGED <<spotOrder, tickets, ticket_seed, vticket, now, nAdds, sortVars, feeVars, gateVars, exitVars, restVars>>

\* validate_ticket that takes the paid ticket out of the ticket map
ValidateTicketForgets(t) ==
    LET ticket == tickets[t]
    IN /\ tickets' = [u \in DOMAIN tickets \ {t} |-> tickets[u]]
       /\ spots' = free_slot(ticket.slot_no)
       /\ lastOp' = Op("validate_ticket", None, NoneInt)
       /\ UNCHANGED <<spotOrder, ticket_seed, vticket, now, nAdds, sortVars, feeVars, gateVars, exitVars, restVars>>

\* Exit.validate_ticket(ticket) on a ticket park_vehicle returned earlier
ValidateTicket(t) ==
    LET ticket == tickets[t]
        hrs    == now - ticket.entry_time
        fee    == calculate(hrs, KindOf(ticket.vehicle), get_spot(ticket.slot_no))
    IN /\ tickets' = [tickets EXCEPT ![t] =
                        [ticket EXCEPT !.exit_time = now, !.amount = fee,
                                       !.status = "PAID"]]
       /\ spots' = free_slot(ticket.slot_no)
       /\ lastOp' = Op("validate_ticket", None, NoneInt)
       /\ UNCHANGED <<spotOrder, ticket_seed, vticket, now, nAdds, sortVars, feeVars, gateVars, exitVars, restVars>>

\* time passes between two calls
Tick ==
    /\ now < MaxTime
    /\ now' = now + 1
    /\ lastOp' = Op("tick", None, NoneInt)
    /\ UNCHANGED <<spots, spotOrder, tickets, ticket_seed, vticket, nAdds, sortVars, feeVars, gateVars, exitVars, restVars>>

ParkNext ==
    \/ \E id \in SpotIds, kind \in SpotKinds : AddParkingSpot(id, kind)
    \/ \E v \in Vehicles : ParkVehicle(v)
    \/ \E id \in SpotIds \cup {MaxSpotId + 1} : FreeSlot(id)
    \/ \E t \in DOMAIN tickets : ValidateTicket(t)

\* the lot with every call made at the same instant
ParkSpec == ParkInit /\ [][ParkNext]_vars

\* a long time passes between two calls, once in a run
Stay ==
    /\ now <= MaxTime
    /\ now' = now + LongStay
    /\ lastOp' = Op("stay", None, NoneInt)
    /\ UNCHANGED <<spots, spotOrder, tickets, ticket_seed, vticket, nAdds, sortVars, feeVars, gateVars, exitVars, restVars>>

ParkClockNext ==
    \/ ParkNext
    \/ Tick

\* the lot with time passing between the calls
ParkClockSpec == ParkInit /\ [][ParkClockNext]_vars

\* ------------------------------------------------------------------------
\* ExitSpec: main's lot, with Exit.validate_ticket run statement by
\* statement and time passing between the calls
\* ------------------------------------------------------------------------
\* the fee above which validate_ticket pays by card: fee > 10, in cents
CardAbove == 1000

\* the ticket object validate_ticket is working on
ExitTicketObj == tickets[exitTicket]

\* line 285 with the comparison fee >= 10
NewPaymentCardFrom10(fee) ==
    [kind   |-> IF fee >= CardAbove THEN "CreditCard" ELSE "Cash",
     amount |-> fee,
     status |-> None]

\* line 285: CreditCard(fee) if fee > 10 else Cash(fee); Payment.__init__
NewPayment(fee) ==
    [kind   |-> IF fee > CardAbove THEN "CreditCard" ELSE "Cash",
     amount |-> fee,
     status |-> None]

\* Cash.initiate_transaction and CreditCard.initiate_transaction
initiate_transaction(p) == [p EXCEPT !.status = "COMPLETED"]

\* lines 279-280: now = datetime.now(); ticket.set_exit_time(now)
ValidateBegin(t) ==
    /\ exitPc = "idle"
    /\ exitPc' = "fee"
    /\ exitTicket' = t
    /\ tickets' = [tickets EXCEPT ![t].exit_time = now]
    /\ lastOp' = Op("validate_ticket", None, NoneInt)
    /\ UNCHANGED <<spots, spotOrder, ticket_seed, vticket, now, nAdds, exitFee, payment,
                   sortVars, feeVars, gateVars, restVars>>

\* lines 281-283: hrs, fee = rate.calculate(...), ticket.set_amount(fee)
ValidateFee ==
    /\ exitPc = "fee"
    /\ exitPc' = "payment"
    /\ LET hrs == now - ExitTicketObj.entry_time
           fee == calculate(hrs, KindOf(ExitTicketObj.vehicle), get_spot(ExitTicketObj.slot_no))
       IN /\ exitFee' = fee
          /\ tickets' = [tickets EXCEPT ![exitTicket].amount = fee]
    /\ UNCHANGED <<spots, spotOrder, ticket_seed, vticket, now, nAdds, lastOp, exitTicket, payment,
                   sortVars, feeVars, gateVars, restVars>>

\* line 285 followed at once by free_slot: the transaction is left out
ValidatePaymentNoTransaction ==
    /\ exitPc = "payment"
    /\ exitPc' = "free_slot"
    /\ payment' = NewPayment(exitFee)
    /\ UNCHANGED <<parkVars, exitTicket, exitFee, sortVars, feeVars, gateVars, restVars>>

\* line 285: the payment object is made
ValidatePayment ==
    /\ exitPc = "payment"
    /\ exitPc' = "transaction"
    /\ payment' = NewPayment(exitFee)
    /\ UNCHANGED <<parkVars, exitTicket, exitFee, sortVars, feeVars, gateVars, restVars>>

\* line 286: payment.initiate_transaction()
ValidateTransaction ==
    /\ exitPc = "transaction"
    /\ exitPc' = "free_slot"
    /\ payment' = initiate_transaction(payment)
    /\ UNCHANGED <<parkVars, exitTicket, exitFee, sortVars, feeVars, gateVars, restVars>>

\* line 287: ParkingLot.get_instance().free_slot(ticket.get_slot_no())
ValidateFreeSlot ==
    /\ exitPc = "free_slot"
    /\ exitPc' = "set_status"
    /\ spots' = free_slot(ExitTicketObj.slot_no)
    /\ UNCHANGED <<spotOrder, tickets, ticket_seed, vticket, now, nAdds, lastOp,
                   exitTicket, exitFee, payment, sortVars, feeVars, gateVars, restVars>>

\* validate_ticket returning without line 288
ValidatePaidKeepsIssued ==
    /\ exitPc = "set_status"
    /\ exitPc' = "idle"
    /\ exitTicket' = NoneInt
    /\ exitFee' = NoneInt
    /\ payment' = NoPayment
    /\ UNCHANGED <<parkVars, sortVars, feeVars, gateVars, restVars>>

\* line 288: ticket.set_status(TicketStatus.PAID), and the return: the
\* locals are gone
ValidatePaid ==
    /\ exitPc = "set_status"
    /\ exitPc' = "idle"
    /\ tickets' = [tickets EXCEPT ![exitTicket].status = "PAID"]
    /\ exitTicket' = NoneInt
    /\ exitFee' = NoneInt
    /\ payment' = NoPayment
    /\ UNCHANGED <<spots, spotOrder, ticket_seed, vticket, now, nAdds, lastOp,
                   sortVars, feeVars, gateVars, restVars>>

\* main, lines 418-422: the lot with its four spots registered
ExitInit ==
    /\ spots = <<NewSpot("Handicapped"), NewSpot("Compact"),
                 NewSpot("Large"), NewSpot("MotorcycleSpot")>>
    /\ spotOrder = <<1, 2, 3, 4>>
    /\ tickets = <<>>
    /\ ticket_seed = TicketSeed0
    /\ vticket = [v \in Vehicles |-> NoneInt]
    /\ now = 0
    /\ nAdds = 4
    /\ lastOp = Op("add_parking_spot", None, NoneInt)
    /\ entrances = <<>>
    /\ exits = <<>>
    /\ ExitIdle
    /\ SortIdle
    /\ FeeIdle
    /\ RestIdle

\* the vehicles that come to the lot in this specification
ExitVehicles == {"car", "truck"}

\* a call runs to its end before the next one starts
ExitNext ==
    \/ exitPc = "idle" /\ \E v \in ExitVehicles : ParkVehicle(v)
    \/ exitPc = "idle" /\ \E id \in DOMAIN spots : FreeSlot(id)
    \/ exitPc = "idle" /\ Tick
    \/ exitPc = "idle" /\ Stay
    \/ \E t \in DOMAIN tickets : ValidateBegin(t)
    \/ ValidateFee
    \/ ValidatePayment
    \/ ValidateTransaction
    \/ ValidateFreeSlot
    \/ ValidatePaid

ExitSpec == ExitInit /\ [][ExitNext]_vars

\* ------------------------------------------------------------------------
\* RegSpec: the registry with spots, entrances and exits registered,
\* vehicles parked and spots cleared
\* ------------------------------------------------------------------------
RegNext ==
    \/ \E id \in SpotIds, kind \in SpotKinds : AddParkingSpot(id, kind)
    \/ \E id \in SpotIds : AddEntrance(id)
    \/ \E id \in SpotIds : AddExit(id)
    \/ \E v \in Vehicles : ParkVehicle(v)
    \/ \E id \in SpotIds \cup {MaxSpotId + 1} : FreeSlot(id)

RegSpec == ParkInit /\ [][RegNext]_vars

\* ------------------------------------------------------------------------
\* SortSpec: a SortingContext and one list
\* ------------------------------------------------------------------------
\* SortingContext(s) and a list to sort. The constructor raises ValueError
\* for an argument that is not a SortingStrategy: no context object exists
\* then, and nothing can be called on it.
SortInit ==
    /\ \E ks \in SeqsUpTo(MaxLen) : input = Tagged(ks) /\ array = Tagged(ks)
    /\ \E s \in Strategies \cup NotStrategies :
          IF IsSortingStrategy(s)
          THEN strategy = s /\ sortCtx = "live" /\ sortErr = None
          ELSE strategy = None /\ sortCtx = "none" /\ sortErr = "ValueError"
    /\ sortStat = NoStat
    /\ FeeIdle
    /\ ParkIdle
    /\ RestIdle

\* set_sorting_strategy without the isinstance check
SetSortingStrategyNoCheck(s) ==
    /\ sortCtx = "live"
    /\ strategy' = s
    /\ sortErr' = None
    /\ UNCHANGED <<input, array, sortStat, sortCtx, feeVars, parkVars, gateVars, exitVars, restVars>>

\* set_sorting_strategy storing its argument before it checks it
SetSortingStrategyStoreFirst(s) ==
    /\ sortCtx = "live"
    /\ strategy' = s
    /\ sortErr' = IF IsSortingStrategy(s) THEN None ELSE "ValueError"
    /\ UNCHANGED <<input, array, sortStat, sortCtx, feeVars, parkVars, gateVars, exitVars, restVars>>

\* SortingContext.set_sorting_strategy(s): the isinstance check comes first
SetSortingStrategy(s) ==
    /\ sortCtx = "live"
    /\ IF IsSortingStrategy(s)
       THEN strategy' = s /\ sortErr' = None
       ELSE strategy' = strategy /\ sortErr' = "ValueError"
    /\ UNCHANGED <<input, array, sortStat, sortCtx, feeVars, parkVars, gateVars, exitVars, restVars>>

\* SortingContext.sort(array): delegates to the current strategy, in place
\* A held object that is not None is truthy; one that is no SortingStrategy
\* has no sort method.
Sort ==
    /\ sortCtx = "live"
    /\ IF strategy = None
       THEN /\ sortErr' = "RuntimeError"
            /\ UNCHANGED <<input, array, sortStat>>
       ELSE IF ~IsSortingStrategy(strategy)
       THEN /\ sortErr' = "AttributeError"
            /\ UNCHANGED <<input, array, sortStat>>
       ELSE /\ array' = StrategySort(strategy, array)
            /\ sortStat' = StatOf(strategy, array)
            /\ input' = array
            /\ sortErr' = None
    /\ UNCHANGED <<strategy, sortCtx, feeVars, parkVars, gateVars, exitVars, restVars>>

SortNext ==
    \/ \E s \in Strategies \cup NotStrategies : SetSortingStrategy(s)
    \/ Sort

SortSpec == SortInit /\ [][SortNext]_vars

\* ------------------------------------------------------------------------
\* FeeSpec: one call of ParkingRate.calculate
\* ------------------------------------------------------------------------
FeeInit ==
    /\ feeHours \in (-MinFeeTicks)..MaxFeeTicks
    /\ feeVehicle \in VehicleKinds
    /\ feeSpot \in SpotKinds \cup {None}
    /\ feeResult = NoneInt
    /\ SortIdle
    /\ ParkIdle
    /\ RestIdle

Calculate ==
    /\ feeResult = NoneInt
    /\ feeResult' = calculate(feeHours, feeVehicle, feeSpot)
    /\ UNCHANGED <<feeHours, feeVehicle, feeSpot, sortVars, parkVars, gateVars, exitVars, restVars>>

FeeNext == Calculate

FeeSpec == FeeInit /\ [][FeeNext]_vars

\* ------------------------------------------------------------------------
\* LeaveSpec: main's lot with park_vehicle and Exit.validate_ticket calls
\* only, on any ticket returned so far, and time passing between calls
\* ------------------------------------------------------------------------
LeaveNext ==
    \/ \E v \in Vehicles : ParkVehicle(v)
    \/ \E t \in DOMAIN tickets : ValidateTicket(t)
    \/ Tick

LeaveSpec == ExitInit /\ [][LeaveNext]_vars

\* ------------------------------------------------------------------------
\* Weather station and its receivers
\* ------------------------------------------------------------------------
\* update that stores only the first weather a receiver gets
updateFirstOnly(rw, o, weather) ==
    IF rw[o] = None THEN [rw EXCEPT ![o] = weather] ELSE rw

\* Receiver.update: the receiver stores the weather (and displays it)
update(rw, o, weather) == [rw EXCEPT ![o] = weather]

\* WeatherStation.notify_all: one update call for every member of the set
\* of observers. st holds the receivers' weather and the update calls made.
RECURSIVE notify_all(_, _, _)
notify_all(obs, weather, st) ==
    IF obs = {} THEN st
    ELSE LET o == CHOOSE x \in obs : TRUE
         IN notify_all(obs \ {o}, weather,
                       [rw      |-> update(st.rw, o, weather),
                        updates |-> [st.updates EXCEPT ![o] = @ + 1]])

\* WeatherStation.subscribe: set.add
subscribe(obs, o) == obs \cup {o}

unsubscribeKeeps(obs, o) == obs

\* WeatherStation.unsubscribe: set.discard
unsubscribe(obs, o) == obs \ {o}

set_weatherNoCheck(cur, obs, rw, weather) ==
    LET st == notify_all(obs, weather, [rw |-> rw, updates |-> [o \in Receivers |-> 0]])
    IN [weather |-> weather, rw |-> st.rw, updates |-> st.updates]

\* WeatherStation.set_weather: return when the weather is the stored one,
\* else store it and notify every observer of it
set_weather(cur, obs, rw, weather) ==
    IF cur = weather
    THEN [weather |-> cur, rw |-> rw, updates |-> [o \in Receivers |-> 0]]
    ELSE LET st == notify_all(obs, weather,
                              [rw |-> rw, updates |-> [o \in Receivers |-> 0]])
         IN [weather |-> weather, rw |-> st.rw, updates |-> st.updates]

\* station.subscribe(o)
Subscribe(o) ==
    /\ stationObservers' = subscribe(stationObservers, o)
    /\ weatherLast' = [NoWeatherCall EXCEPT !.name = "subscribe", !.arg = o]
    /\ UNCHANGED <<stationWeather, receiverWeather>>
    /\ UNCHANGED <<sortVars, feeVars, parkVars, gateVars, exitVars, stockVars, pizzaVars>>

\* station.unsubscribe(o)
Unsubscribe(o) ==
    /\ stationObservers' = unsubscribe(stationObservers, o)
    /\ weatherLast' = [NoWeatherCall EXCEPT !.name = "unsubscribe", !.arg = o]
    /\ UNCHANGED <<stationWeather, receiverWeather>>
    /\ UNCHANGED <<sortVars, feeVars, parkVars, gateVars, exitVars, stockVars, pizzaVars>>

\* station.set_weather(w)
SetWeather(w) ==
    LET r == set_weather(stationWeather, stationObservers, receiverWeather, w)
    IN /\ stationWeather' = r.weather
       /\ receiverWeather' = r.rw
       /\ weatherLast' = [name |-> "set_weather", arg |-> w, updates |-> r.updates]
       /\ UNCHANGED stationObservers
       /\ UNCHANGED <<sortVars, feeVars, parkVars, gateVars, exitVars, stockVars, pizzaVars>>

WeatherInit ==
    /\ WeatherIdle
    /\ SortIdle
    /\ FeeIdle
    /\ ParkIdle
    /\ StockIdle
    /\ PizzaIdle

WeatherNext ==
    \/ \E o \in Receivers : Subscribe(o)
    \/ \E o \in Receivers : Unsubscribe(o)
    \/ \E w \in Weathers : SetWeather(w)

WeatherSpec == WeatherInit /\ [][WeatherNext]_vars

\* ------------------------------------------------------------------------
\* Products and their customers
\* ------------------------------------------------------------------------
\* largest stock of a product, and largest amount of one call
MaxStock == 2
MaxAmount == 2

\* Product.notify_all: one update call for every member of the product's
\* set of observers; Customer.update prints the message
RECURSIVE Product_notify_all(_, _)
Product_notify_all(obs, updates) ==
    IF obs = {} THEN updates
    ELSE LET c == CHOOSE x \in obs : TRUE
         IN Product_notify_all(obs \ {c}, [updates EXCEPT ![c] = @ + 1])

\* Product.subscribe: set.add
Product_subscribe(obs, c) == obs \cup {c}

\* Product.unsubscribe: remove the observer when it is in the set, else
\* print that it cannot be unsubscribed
Product_unsubscribe(obs, c) == IF c \in obs THEN obs \ {c} ELSE obs

add_stockAlwaysNotifies(q, n) ==
    [quantity |-> q + n, msg |-> "back_in_stock"]

\* Product.add_stock: the new quantity and the message it sends, if any
add_stock(q, n) ==
    LET was_out == q = 0
    IN [quantity |-> q + n,
        msg      |-> IF was_out THEN "back_in_stock" ELSE None]

remove_stockNoClamp(q, n) ==
    [quantity |-> q - n, msg |-> IF q - n = 0 THEN "out_of_stock" ELSE None]

\* Product.remove_stock: the new quantity, reset to 0 when negative, and the
\* message it sends, if any
remove_stock(q, n) ==
    LET q1 == q - n
        q2 == IF q1 < 0 THEN 0 ELSE q1
    IN [quantity |-> q2,
        msg      |-> IF q2 = 0 THEN "out_of_stock" ELSE None]

\* the record of a call on product p
StockCall(name, p, n, was, msg) ==
    [name |-> name, product |-> p, arg |-> n, was |-> was, msg |-> msg,
     updates |-> IF msg = None THEN [c \in Customers |-> 0]
                 ELSE Product_notify_all(observers[p], [c \in Customers |-> 0])]

\* p.subscribe(c)
ProductSubscribe(p, c) ==
    /\ observers' = [observers EXCEPT ![p] = Product_subscribe(@, c)]
    /\ stockLast' = StockCall("subscribe", p, 0, quantity[p], None)
    /\ UNCHANGED <<quantity, lastMsg>>
    /\ UNCHANGED <<sortVars, feeVars, parkVars, gateVars, exitVars, weatherVars, pizzaVars>>

\* p.unsubscribe(c)
ProductUnsubscribe(p, c) ==
    /\ observers' = [observers EXCEPT ![p] = Product_unsubscribe(@, c)]
    /\ stockLast' = StockCall("unsubscribe", p, 0, quantity[p], None)
    /\ UNCHANGED <<quantity, lastMsg>>
    /\ UNCHANGED <<sortVars, feeVars, parkVars, gateVars, exitVars, weatherVars, pizzaVars>>

\* p.add_stock(n)
AddStock(p, n) ==
    LET r == add_stock(quantity[p], n)
    IN /\ r.quantity <= MaxStock
       /\ quantity' = [quantity EXCEPT ![p] = r.quantity]
       /\ stockLast' = StockCall("add_stock", p, n, quantity[p], r.msg)
       /\ lastMsg' = IF r.msg = None THEN lastMsg ELSE [lastMsg EXCEPT ![p] = r.msg]
       /\ UNCHANGED observers
       /\ UNCHANGED <<sortVars, feeVars, parkVars, gateVars, exitVars, weatherVars, pizzaVars>>

\* p.remove_stock(n)
RemoveStock(p, n) ==
    LET r == remove_stock(quantity[p], n)
    IN /\ quantity' = [quantity EXCEPT ![p] = r.quantity]
       /\ stockLast' = StockCall("remove_stock", p, n, quantity[p], r.msg)
       /\ lastMsg' = IF r.msg = None THEN lastMsg ELSE [lastMsg EXCEPT ![p] = r.msg]
       /\ UNCHANGED observers
       /\ UNCHANGED <<sortVars, feeVars, parkVars, gateVars, exitVars, weatherVars, pizzaVars>>

\* Product(...) with a quantity that is not negative, as the demo makes them
StockInit ==
    /\ quantity \in [Products -> 0..MaxStock]
    /\ observers = [p \in Products |-> {}]
    /\ stockLast = NoStockCall
    /\ lastMsg = [p \in Products |-> None]
    /\ SortIdle
    /\ FeeIdle
    /\ ParkIdle
    /\ WeatherIdle
    /\ PizzaIdle

StockNext ==
    \/ \E p \in Products, c \in Customers : ProductSubscribe(p, c)
    \/ \E p \in Products, c \in Customers : ProductUnsubscribe(p, c)
    \/ \E p \in Products, n \in 0..MaxAmount : AddStock(p, n)
    \/ \E p \in Products, n \in 0..MaxAmount : RemoveStock(p, n)

StockSpec == StockInit /\ [][StockNext]_vars

\* ------------------------------------------------------------------------
\* Pizza shop
\* ------------------------------------------------------------------------
\* most add-ons wrapped around one pizza by hand, most CartItems made in a
\* run, most Orders made in a run
MaxAddOns == 2
MaxItems == 2
MaxOrders == 2

\* Order.DELIVERY_FEE, in cents
DELIVERY_FEE == 399

\* the members of the PricedItem enums
Sizes    == {"SMALL", "MEDIUM", "LARGE"}
Crusts   == {"THIN", "REGULAR", "DEEPDISH"}
Toppings == {"PEPPERONI", "MUSHROOM", "EXTRACHEESE"}
Specials == {"FARMHOUSE", "MARGARITA", "VEGGIEDELIGHT"}
AddOns   == Crusts \cup Toppings \cup Specials

\* PricedItem.price, in cents
price(item) ==
    CASE item = "SMALL"         -> 800
      [] item = "MEDIUM"        -> 1000
      [] item = "LARGE"         -> 1200
      [] item = "THIN"          -> 100
      [] item = "REGULAR"       -> 200
      [] item = "DEEPDISH"      -> 300
      [] item = "PEPPERONI"     -> 150
      [] item = "MUSHROOM"      -> 100
      [] item = "EXTRACHEESE"   -> 125
      [] item = "FARMHOUSE"     -> 500
      [] item = "MARGARITA"     -> 200
      [] item = "VEGGIEDELIGHT" -> 500

\* PricedItem.desc
desc(item) ==
    CASE item = "SMALL"         -> "Small Pizza (10\")"
      [] item = "MEDIUM"        -> "Medium Pizza (14\")"
      [] item = "LARGE"         -> "Large Pizza (18\")"
      [] item = "THIN"          -> "Thin Crust"
      [] item = "REGULAR"       -> "Regular Crust"
      [] item = "DEEPDISH"      -> "Deep Dish Crust"
      [] item = "PEPPERONI"     -> "Pepperoni"
      [] item = "MUSHROOM"      -> "Mushroom"
      [] item = "EXTRACHEESE"   -> "Extra Cheese"
      [] item = "FARMHOUSE"     -> "Farmhouse"
      [] item = "MARGARITA"     -> "Margarita"
      [] item = "VEGGIEDELIGHT" -> "Veggie Delight"

\* SizePizza(size), or SmallPizza(), MediumPizza(), LargePizza()
SizePizza(size) == <<size>>

\* AddOnPizza(base_pizza, priced_item), or ThinCrust(base_pizza), ...: the
\* decorator object around base_pizza
AddOnPizza(base_pizza, priced_item) == Append(base_pizza, priced_item)

\* the _base_pizza and the _add_on of a decorator object
BasePizzaOf(p) == SubSeq(p, 1, Len(p) - 1)
AddOnOf(p) == p[Len(p)]

RECURSIVE get_costInherited(_)
get_costInherited(p) ==
    IF Len(p) = 1 THEN price(p[1]) ELSE get_costInherited(BasePizzaOf(p))

\* get_cost: the size's price, or the base pizza's cost plus the add-on's
\* price
RECURSIVE get_cost(_)
get_cost(p) ==
    IF Len(p) = 1 THEN price(p[1])
    ELSE get_cost(BasePizzaOf(p)) + price(AddOnOf(p))

\* get_description: the size's desc, or the base pizza's description, ", "
\* and the add-on's desc; the parts between the commas, as a sequence
RECURSIVE get_description(_)
get_description(p) ==
    IF Len(p) = 1 THEN <<desc(p[1])>>
    ELSE get_description(BasePizzaOf(p)) \o <<desc(AddOnOf(p))>>

\* CartItem(food, quantity)
CartItem(food, q) == [food |-> food, quantity |-> q]

\* CartItem.total
total(item) == get_cost(item.food) * item.quantity

\* the loop of _build_pizza over the toppings
RECURSIVE AddToppings(_, _)
AddToppings(p, toppings) ==
    IF toppings = <<>> THEN p
    ELSE AddToppings(AddOnPizza(p, Head(toppings)), Tail(toppings))

\* PizzaBuilder._build_pizza: the size, then the crust if any, the toppings
\* in their order, the special if any. <<>> stands for both values of
\* toppings that count as false, None and the empty list.
_build_pizza(size, crust, toppings, special) ==
    LET p0 == SizePizza(size)
        p1 == IF crust # None THEN AddOnPizza(p0, crust) ELSE p0
        p2 == IF toppings # <<>> THEN AddToppings(p1, toppings) ELSE p1
    IN IF special # None THEN AddOnPizza(p2, special) ELSE p2

\* sum(item.total() for item in items)
RECURSIVE SumTotals(_)
SumTotals(items) ==
    IF items = <<>> THEN 0 ELSE total(Head(items)) + SumTotals(Tail(items))

_calculate_totalFeePerItem(items) ==
    SumTotals(items) + (IF items = <<>> THEN 1 ELSE Len(items)) * DELIVERY_FEE

\* Order._calculate_total
_calculate_total(items) == SumTotals(items) + DELIVERY_FEE

\* the arguments of the builder calls of the demo, and one without add-ons
BuilderArgs ==
    {[size |-> "LARGE", crust |-> "REGULAR",
      toppings |-> <<"MUSHROOM", "EXTRACHEESE">>, special |-> "FARMHOUSE"],
     [size |-> "MEDIUM", crust |-> None, toppings |-> <<>>,
      special |-> "VEGGIEDELIGHT"],
     [size |-> "SMALL", crust |-> "THIN", toppings |-> <<"EXTRACHEESE">>,
      special |-> None],
     [size |-> "SMALL", crust |-> None, toppings |-> <<>>, special |-> None]}

\* the quantities of the demo
Quantities == {1, 2, 3}

\* p = SizePizza(size)
NewSizePizza(size) ==
    /\ pizza' = SizePizza(size)
    /\ UNCHANGED <<cart, orders, next_id>>
    /\ UNCHANGED <<sortVars, feeVars, parkVars, gateVars, exitVars, weatherVars, stockVars>>

\* p = AddOnPizza(p, item)
Wrap(item) ==
    /\ pizza # <<>>
    /\ Len(pizza) <= MaxAddOns
    /\ pizza' = AddOnPizza(pizza, item)
    /\ UNCHANGED <<cart, orders, next_id>>
    /\ UNCHANGED <<sortVars, feeVars, parkVars, gateVars, exitVars, weatherVars, stockVars>>

\* the CartItems of the orders made
RECURSIVE ItemsOrdered(_)
ItemsOrdered(os) ==
    IF os = <<>> THEN 0 ELSE Len(Head(os).items) + ItemsOrdered(Tail(os))

\* items.append(PizzaBuilder(size, crust, toppings, special).make_food(q))
MakeFood(a, q) ==
    /\ Len(cart) + ItemsOrdered(orders) < MaxItems
    /\ pizza' = _build_pizza(a.size, a.crust, a.toppings, a.special)
    /\ cart' = Append(cart, CartItem(pizza', q))
    /\ UNCHANGED <<orders, next_id>>
    /\ UNCHANGED <<sortVars, feeVars, parkVars, gateVars, exitVars, weatherVars, stockVars>>

\* Order(items, customer), after which the client starts a new list of items
NewOrder ==
    /\ Len(orders) < MaxOrders
    /\ orders' = Append(orders, [id |-> next_id, items |-> cart])
    /\ next_id' = next_id + 1
    /\ cart' = <<>>
    /\ UNCHANGED pizza
    /\ UNCHANGED <<sortVars, feeVars, parkVars, gateVars, exitVars, weatherVars, stockVars>>

PizzaInit ==
    /\ PizzaIdle
    /\ SortIdle
    /\ FeeIdle
    /\ ParkIdle
    /\ WeatherIdle
    /\ StockIdle

\* PizzaSpec: pizzas made by hand from a size and decorators
PizzaNext ==
    \/ \E size \in Sizes : NewSizePizza(size)
    \/ \E item \in AddOns : Wrap(item)

PizzaSpec == PizzaInit /\ [][PizzaNext]_vars

\* OrderSpec: pizzas made by the builder, put in lists and ordered
OrderNext ==
    \/ \E a \in BuilderArgs, q \in Quantities : MakeFood(a, q)
    \/ NewOrder

OrderSpec == PizzaInit /\ [][OrderNext]_vars

\* ========================================================================
\* Properties
\* ========================================================================

\* ---- helpers of the properties -----------------------------------------
IsSorted(ks) == \A i \in 1..(Len(ks) - 1) : ks[i] <= ks[i + 1]

Elems(a) == {a[i] : i \in 1..Len(a)}

CountOf(ks, k) == Cardinality({i \in 1..Len(ks) : ks[i] = k})

\* b holds exactly the elements of a (tags make the elements distinct)
SameMultiset(a, b) ==
    /\ Len(a) = Len(b)
    /\ Elems(a) = Elems(b)
    /\ \A k \in 1..MaxKey : CountOf(Keys(a), k) = CountOf(Keys(b), k)

\* the compatibility table of the specification
TableFit(vk, sk) ==
    \/ vk = "Motorcycle" /\ sk = "MotorcycleSpot"
    \/ vk = "Car" /\ sk \in {"Compact", "Handicapped"}
    \/ vk \in {"Van", "Truck"} /\ sk = "Large"

\* this step is a call park_vehicle(v)
Parked(v) == lastOp'.name = "park_vehicle" /\ lastOp'.arg = v

\* some spot of one of the kinds ks is free
FreeOfKind(ks) == \E id \in DOMAIN spots : spots[id].is_free /\ spots[id].kind \in ks

\* every occupant of class vk stands in a spot of one of the kinds ks
OnlyIn(vk, ks) ==
    \A id \in DOMAIN spots :
        (spots[id].vehicle # None /\ KindOf(spots[id].vehicle) = vk)
            => spots[id].kind \in ks

PosOf(id) == CHOOSE i \in 1..Len(spotOrder) : spotOrder[i] = id

\* the spot at position i is free and takes v, by can_fit and by the table
FreeFitAt(v, i) ==
    /\ spots[spotOrder[i]].is_free
    /\ can_fit(KindOf(v), spots[spotOrder[i]].kind)

FreeTableFitAt(v, i) ==
    /\ spots[spotOrder[i]].is_free
    /\ TableFit(KindOf(v), spots[spotOrder[i]].kind)

\* the least whole number of hours that covers `ticks`
HoursUp(ticks) ==
    CHOOSE H \in (-MinFeeTicks - 1)..(MaxFeeTicks + 1) :
        /\ H * TicksPerHour >= ticks
        /\ (H - 1) * TicksPerHour < ticks

HalfHour == TicksPerHour \div 2

\* ---- C1 ----------------------------------------------------------------
\* C1: every strategy leaves every list in non-decreasing order with exactly
\* the elements of the input, so the three strategies give the same list;
\* and the list a SortingContext.sort call leaves behind is that list.
C1_AllStrategiesSort ==
    /\ \A s \in Strategies :
          LET r == StrategySort(s, input) IN
          /\ IsSorted(Keys(r))
          /\ SameMultiset(r, input)
          /\ Keys(r) = Keys(StrategySort("MERGE", input))
    /\ sortStat.by # None =>
          /\ IsSorted(Keys(array))
          /\ SameMultiset(array, input)
          /\ \A s \in Strategies : Keys(StrategySort(s, input)) = Keys(array)

\* a bubble sort has reordered an unsorted list with a repeated element
C1_Witness ==
    /\ sortStat.by = "BUBBLE"
    /\ Len(input) >= 3
    /\ ~IsSorted(Keys(input))
    /\ \E i, j \in 1..Len(input) : i # j /\ input[i].key = input[j].key
    /\ array # input

\* ---- C2 ----------------------------------------------------------------
\* C2: a Motorcycle never stands in a Compact, Large or Handicapped spot,
\* and park_vehicle(Motorcycle) returns no ticket when no MotorcycleSpot
\* is free.
C2_MotorcycleOnlyInMotorcycleSpot ==
    /\ [](OnlyIn("Motorcycle", {"MotorcycleSpot"}))
    /\ [][\A v \in Vehicles :
            (Parked(v) /\ KindOf(v) = "Motorcycle" /\ ~FreeOfKind({"MotorcycleSpot"}))
                => lastOp'.ret = NoneInt]_vars

\* ---- C3 ----------------------------------------------------------------
\* C3: a Van or Truck never stands in a Handicapped, Compact or
\* MotorcycleSpot spot, and park_vehicle of a Van or Truck returns no
\* ticket when no Large spot is free.
C3_VanTruckOnlyInLarge ==
    /\ [](OnlyIn("Van", {"Large"}) /\ OnlyIn("Truck", {"Large"}))
    /\ [][\A v \in Vehicles :
            (Parked(v) /\ KindOf(v) \in {"Van", "Truck"} /\ ~FreeOfKind({"Large"}))
                => lastOp'.ret = NoneInt]_vars

\* ---- C4 ----------------------------------------------------------------
\* C4: a Car never stands in a Large or MotorcycleSpot spot, and
\* park_vehicle(Car) returns a ticket, for a Compact or Handicapped spot,
\* whenever a Compact or Handicapped spot is free.
C4_CarCompactOrHandicapped ==
    /\ [](OnlyIn("Car", {"Compact", "Handicapped"}))
    /\ [][\A v \in Vehicles :
            (Parked(v) /\ KindOf(v) = "Car") =>
                /\ FreeOfKind({"Compact", "Handicapped"}) => lastOp'.ret # NoneInt
                /\ lastOp'.ret # NoneInt =>
                      spots[tickets'[lastOp'.ret].slot_no].kind
                          \in {"Compact", "Handicapped"}]_vars

\* a Car was given a ticket while a Large or MotorcycleSpot spot is free
C4_Witness ==
    /\ lastOp.name = "park_vehicle"
    /\ lastOp.arg = "car"
    /\ lastOp.ret # NoneInt
    /\ FreeOfKind({"Large", "MotorcycleSpot"})
    /\ spots[tickets[lastOp.ret].slot_no].vehicle = "car"

\* ---- C5 ----------------------------------------------------------------
\* C5: park_vehicle takes the first spot, in the key order of the registry,
\* that is free and fits the vehicle: no spot before the assigned one was
\* free and compatible (by can_fit, hence by the table), and it returns a
\* ticket whenever a free compatible spot exists.
C5_FirstFreeCompatible ==
    [][\A v \in Vehicles : Parked(v) =>
          /\ lastOp'.ret # NoneInt =>
                LET i == PosOf(tickets'[lastOp'.ret].slot_no) IN
                /\ FreeFitAt(v, i)
                /\ \A j \in 1..(i - 1) : ~FreeFitAt(v, j) /\ ~FreeTableFitAt(v, j)
          /\ (\E j \in 1..Len(spotOrder) : FreeFitAt(v, j) \/ FreeTableFitAt(v, j))
                => lastOp'.ret # NoneInt]_vars

\* a vehicle was assigned the second spot of the registry, the first one
\* being free but of a kind it does not fit
C5_Witness ==
    /\ lastOp.name = "park_vehicle"
    /\ lastOp.ret # NoneInt
    /\ Len(spotOrder) = 2
    /\ tickets[lastOp.ret].slot_no = spotOrder[2]
    /\ spots[spotOrder[1]].is_free
    /\ spots[spotOrder[2]].vehicle = lastOp.arg

\* ---- C6 ----------------------------------------------------------------
\* C6: a successful park_vehicle(v) turns exactly one spot from free to
\* occupied by v and leaves every other spot as it was; the ticket it
\* returns is Issued, carries that spot's id and v, is stored under its own
\* number and is v's ticket.
C6_ParkChangesOneSpot ==
    [][\A v \in Vehicles : (Parked(v) /\ lastOp'.ret # NoneInt) =>
          LET t  == lastOp'.ret
              tk == tickets'[t]
              id == tk.slot_no
          IN /\ id \in DOMAIN spots
             /\ spots[id].is_free
             /\ spots[id].vehicle = None
             /\ spots'[id] = [kind |-> spots[id].kind, is_free |-> FALSE, vehicle |-> v]
             /\ DOMAIN spots' = DOMAIN spots
             /\ \A o \in DOMAIN spots \ {id} : spots'[o] = spots[o]
             /\ spotOrder' = spotOrder
             /\ t \in DOMAIN tickets'
             /\ tk.ticket_no = t
             /\ tk.status = "ISSUED"
             /\ tk.vehicle = v
             /\ vticket'[v] = t
             /\ \A o \in Vehicles \ {v} : vticket'[o] = vticket[o]]_vars

\* the second ticket was issued in a lot of two spots
C6_Witness ==
    /\ lastOp.name = "park_vehicle"
    /\ lastOp.ret = TicketSeed0 + 1
    /\ Cardinality(DOMAIN spots) = 2
    /\ \A id \in DOMAIN spots : ~spots[id].is_free
    /\ vticket[lastOp.arg] = lastOp.ret

\* ---- C7 ----------------------------------------------------------------
\* C7: a park_vehicle call that finds no free compatible spot returns None
\* and changes nothing: spots, ticket map, ticket counter and the vehicles'
\* ticket references stay as they were.
C7_LotFullNoSideEffect ==
    [][\A v \in Vehicles : (Parked(v) /\ lastOp'.ret = NoneInt) =>
          /\ \A j \in 1..Len(spotOrder) : ~FreeFitAt(v, j)
          /\ UNCHANGED <<spots, spotOrder, tickets, ticket_seed, vticket>>]_vars

\* a vehicle that holds a ticket was turned away while a spot is free
C7_Witness ==
    /\ lastOp.name = "park_vehicle"
    /\ lastOp.ret = NoneInt
    /\ vticket[lastOp.arg] # NoneInt
    /\ \E id \in DOMAIN spots : spots[id].is_free

\* ---- C8 ----------------------------------------------------------------
\* C8: ticket numbers start at 1000 and the k-th successful park_vehicle
\* returns 1000 + (k - 1); a failed call consumes no number; every ticket
\* is stored under its own number and no stored ticket is ever replaced.
C8_TicketIdsIncrease ==
    /\ [](/\ DOMAIN tickets = TicketSeed0..(ticket_seed - 1)
          /\ \A t \in DOMAIN tickets : tickets[t].ticket_no = t)
    /\ [][\A v \in Vehicles : Parked(v) =>
            /\ lastOp'.ret # NoneInt =>
                  /\ lastOp'.ret = TicketSeed0 + Cardinality(DOMAIN tickets)
                  /\ \A t \in DOMAIN tickets : t < lastOp'.ret
                  /\ ticket_seed' = ticket_seed + 1
            /\ lastOp'.ret = NoneInt => ticket_seed' = ticket_seed
            /\ \A t \in DOMAIN tickets :
                  t \in DOMAIN tickets' /\ tickets'[t] = tickets[t]]_vars

\* the second ticket was issued after a call that was turned away
C8_Witness ==
    /\ lastOp.name = "park_vehicle"
    /\ lastOp.ret = TicketSeed0 + 1
    /\ DOMAIN tickets = {TicketSeed0, TicketSeed0 + 1}
    /\ ticket_seed = TicketSeed0 + 2

\* ---- C9 ----------------------------------------------------------------
\* C9 as stated: calculate returns $4 for 0.5 h, $7.50 for 1.5 h, $11.50
\* for 3.5 h and $4 for exactly 1 h.
C9_FeeExamplesAsStated ==
    feeResult # NoneInt =>
        /\ feeHours = HalfHour => feeResult = 400
        /\ feeHours = 3 * HalfHour => feeResult = 750
        /\ feeHours = 7 * HalfHour => feeResult = 1150
        /\ feeHours = TicksPerHour => feeResult = 400

\* C9 amended: calculate returns $4 for 0.5 h, $7.50 for 1.5 h, $13.50
\* for 3.5 h (4 + 3.5 + 3.5 + 2.5) and $4 for exactly 1 h.
C9_FeeExamples ==
    feeResult # NoneInt =>
        /\ feeHours = HalfHour => feeResult = 400
        /\ feeHours = 3 * HalfHour => feeResult = 750
        /\ feeHours = 7 * HalfHour => feeResult = 1350
        /\ feeHours = TicksPerHour => feeResult = 400

\* calculate has returned for 3.5 hours
C9_Witness == feeResult # NoneInt /\ feeHours = 7 * HalfHour

\* ---- C10 ---------------------------------------------------------------
\* C10: for a positive elapsed time, with H the hours rounded up to a whole
\* number, calculate returns 4 for H = 1, 7.5 for H = 2, 11 for H = 3 and
\* 11 + 2.5 * (H - 3) for H > 3, whatever the vehicle and the spot.
C10_FeeSchedule ==
    (feeResult # NoneInt /\ feeHours > 0) =>
        LET H == HoursUp(feeHours) IN
        /\ H >= 1
        /\ H = 1 => feeResult = 400
        /\ H = 2 => feeResult = 750
        /\ H = 3 => feeResult = 1100
        /\ H > 3 => feeResult = 1100 + 250 * (H - 3)

\* calculate has returned for a time past the third hour that is not a
\* whole number of hours, for a Truck in no spot
C10_Witness ==
    /\ feeResult # NoneInt
    /\ feeHours > 3 * TicksPerHour
    /\ feeHours % TicksPerHour # 0
    /\ feeVehicle = "Truck"
    /\ feeSpot = None

\* ---- C11 ---------------------------------------------------------------
\* the fee of the rate schedule for an elapsed time of `ticks`
ScheduleFee(ticks) ==
    LET H == HoursUp(ticks) IN
    IF H <= 0 THEN 0
    ELSE IF H = 1 THEN 400
    ELSE IF H = 2 THEN 750
    ELSE 1100 + 250 * (H - 3)

\* C11: in a validate_ticket call on an Issued ticket t, the statement that
\* frees t's spot runs with the exit time stamped, the amount set to the
\* schedule's fee for the time since entry and the payment Completed, and
\* leaves the spot free with no occupant and t still Issued; t becomes Paid
\* in a later step that finds the spot free and changes nothing but the
\* status; nothing is freed or marked Paid while the payment is not
\* Completed, and the call ends with t Paid.
C11_ExitOrder ==
    [][\A t \in DOMAIN tickets :
        (exitTicket = t /\ tickets[t].status = "ISSUED") =>
            LET id      == tickets[t].slot_no
                paidFor == /\ tickets[t].exit_time = now
                           /\ tickets[t].amount = ScheduleFee(now - tickets[t].entry_time)
                           /\ payment.status = "COMPLETED"
                           /\ payment.amount = tickets[t].amount
            IN /\ (exitPc = "free_slot" /\ exitPc' # exitPc) =>
                      /\ paidFor
                      /\ spots'[id].is_free
                      /\ spots'[id].vehicle = None
                      /\ \A o \in DOMAIN spots \ {id} : spots'[o] = spots[o]
                      /\ tickets' = tickets
               /\ tickets'[t].status # "ISSUED" =>
                      /\ paidFor
                      /\ spots[id].is_free
                      /\ spots[id].vehicle = None
                      /\ spots' = spots
                      /\ tickets' = [tickets EXCEPT ![t].status = "PAID"]
               /\ payment.status # "COMPLETED" =>
                      /\ spots' = spots
                      /\ tickets'[t].status = "ISSUED"
               /\ tickets'[t].amount # tickets[t].amount =>
                      tickets[t].exit_time = now
               /\ exitPc' = "idle" => tickets'[t].status = "PAID"]_vars

\* validate_ticket has stamped, priced, charged by card and freed the spot
\* of a ticket for a stay of more than two hours; the ticket is not yet Paid
C11_Witness ==
    /\ exitPc = "set_status"
    /\ ExitTicketObj.status = "ISSUED"
    /\ ExitTicketObj.exit_time = now
    /\ ExitTicketObj.exit_time > ExitTicketObj.entry_time
    /\ ExitTicketObj.amount >= 1100
    /\ payment.status = "COMPLETED"
    /\ spots[ExitTicketObj.slot_no].is_free

\* ---- C12 ---------------------------------------------------------------
\* C12: the payment validate_ticket makes is a CreditCard when the fee is
\* above $10 and a Cash payment otherwise, for the fee set on the ticket; a
\* fee of exactly $10 makes a Cash payment; its status is unset until the
\* transaction and Completed from then on, never anything else.
C12_CardAboveTen ==
    /\ payment # NoPayment =>
          /\ payment.kind \in {"Cash", "CreditCard"}
          /\ payment.kind = "CreditCard" <=> payment.amount > 10 * 100
          /\ payment.amount = ExitTicketObj.amount
          /\ payment.status \in {None, "COMPLETED"}
          /\ payment.status = None <=> exitPc = "transaction"
    /\ NewPayment(10 * 100).kind = "Cash"
    /\ NewPayment(10 * 100 + 1).kind = "CreditCard"

\* a card payment of $11 or more has been completed
C12_Witness ==
    /\ payment.kind = "CreditCard"
    /\ payment.status = "COMPLETED"
    /\ payment.amount >= 1100
    /\ ExitTicketObj.amount = payment.amount

\* a cash payment of $4 has been completed
C12_CashCase ==
    /\ payment.kind = "Cash"
    /\ payment.status = "COMPLETED"
    /\ payment.amount = 400

\* ---- C13 ---------------------------------------------------------------
\* C13: every ticket is Issued or Paid; between the calls an Issued ticket
\* has no exit time and amount 0; a ticket enters the map Issued, by
\* park_vehicle; the only change of status is Issued -> Paid, made by the
\* validate_ticket call on that ticket, which ends with the ticket Paid; a
\* Paid ticket stays Paid.
C13_TicketLifecycle ==
    /\ [](\A t \in DOMAIN tickets :
            /\ tickets[t].status \in {"ISSUED", "PAID"}
            /\ (tickets[t].status = "ISSUED" /\ exitTicket # t) =>
                  /\ tickets[t].exit_time = NoneInt
                  /\ tickets[t].amount = 0)
    /\ [][/\ \A t \in DOMAIN tickets' \ DOMAIN tickets :
                /\ tickets'[t].status = "ISSUED"
                /\ lastOp'.name = "park_vehicle"
          /\ \A t \in DOMAIN tickets :
                /\ tickets'[t].status # tickets[t].status =>
                      /\ tickets[t].status = "ISSUED"
                      /\ tickets'[t].status = "PAID"
                      /\ exitTicket = t
                /\ tickets[t].status = "PAID" => tickets'[t].status = "PAID"
                /\ (exitTicket = t /\ exitPc' = "idle") =>
                      tickets'[t].status = "PAID"]_vars

\* between two calls, after a validate_ticket: one ticket is Paid with a
\* fee, another is still Issued although free_slot has cleared its spot
C13_Witness ==
    /\ exitPc = "idle"
    /\ lastOp.name = "validate_ticket"
    /\ \E t, u \in DOMAIN tickets :
          /\ tickets[t].status = "PAID"
          /\ tickets[t].amount > 0
          /\ tickets[t].exit_time > tickets[t].entry_time
          /\ tickets[u].status = "ISSUED"
          /\ spots[tickets[u].slot_no].is_free
          /\ tickets[u].slot_no # tickets[t].slot_no

\* ---- C14 ---------------------------------------------------------------
\* C14: free_slot(id) of a registered id leaves that spot free with no
\* occupant and every other spot, the ticket map, the ticket counter and the
\* vehicles' ticket references as they were; of an unknown id, or of a spot
\* that is free already, it changes nothing; a second free_slot(id) changes
\* nothing.
C14_FreeSlotFrame ==
    [][\A id \in SpotIds \cup {MaxSpotId + 1} :
        (lastOp'.name = "free_slot" /\ FreeSlot(id)) =>
            /\ tickets' = tickets
            /\ ticket_seed' = ticket_seed
            /\ vticket' = vticket
            /\ spotOrder' = spotOrder
            /\ DOMAIN spots' = DOMAIN spots
            /\ \A o \in DOMAIN spots \ {id} : spots'[o] = spots[o]
            /\ id \in DOMAIN spots =>
                  /\ spots'[id].is_free
                  /\ spots'[id].vehicle = None
                  /\ spots'[id].kind = spots[id].kind
            /\ id \notin DOMAIN spots => spots' = spots
            /\ (id \in DOMAIN spots /\ spots[id].is_free) => spots' = spots
            /\ free_slot(id)' = spots']_vars

\* free_slot has just cleared one of two occupied spots: both tickets are
\* still Issued, one of their spots is free and the other is taken
C14_Witness ==
    /\ lastOp.name = "free_slot"
    /\ Len(spotOrder) = 2
    /\ \E t, u \in DOMAIN tickets :
          /\ tickets[t].status = "ISSUED" /\ tickets[u].status = "ISSUED"
          /\ spots[tickets[t].slot_no].is_free
          /\ ~spots[tickets[u].slot_no].is_free

\* ---- C15 ---------------------------------------------------------------
\* the spot id held a vehicle at some time and no registration replaced it:
\* if it is free now, free_slot(id) has cleared it
WasTaken(id) ==
    /\ nAdds = Len(spotOrder)
    /\ \E t \in DOMAIN tickets : tickets[t].slot_no = id

\* C15: free_slot(id) of an occupied spot leaves the spot free; a later
\* park_vehicle(v), with the spot still free and v compatible with it by the
\* table, returns a ticket, and the ticket is for that very spot when no
\* spot registered before it is free and compatible with v.
C15_FreedSpotReused ==
    /\ [][\A id \in DOMAIN spots :
            (FreeSlot(id) /\ ~spots[id].is_free) => spots'[id].is_free]_vars
    /\ [][\A v \in Vehicles, id \in DOMAIN spots :
            (/\ Parked(v)
             /\ WasTaken(id)
             /\ spots[id].is_free
             /\ TableFit(KindOf(v), spots[id].kind)) =>
                /\ lastOp'.ret # NoneInt
                /\ (\A j \in 1..(PosOf(id) - 1) : ~FreeTableFitAt(v, j))
                      => tickets'[lastOp'.ret].slot_no = id]_vars

\* ---- C16 ---------------------------------------------------------------
\* C16: every registered spot is marked free exactly when it holds no
\* vehicle.
C16_OccupiedIffVehicle ==
    \A id \in DOMAIN spots : spots[id].is_free <=> (spots[id].vehicle = None)

\* validate_ticket has cleared a spot while another spot is taken
C16_Witness ==
    /\ lastOp.name = "validate_ticket"
    /\ \E t \in DOMAIN tickets :
          tickets[t].status = "PAID" /\ spots[tickets[t].slot_no].is_free
    /\ \E id \in DOMAIN spots : ~spots[id].is_free /\ spots[id].vehicle # None

\* ---- C17 ---------------------------------------------------------------
\* C17: no step takes a ticket out of the ticket map: every recorded ticket
\* stays recorded under its number, for the same vehicle, spot and entry
\* time, and every ticket of the map is filed under its own number.
C17_TicketsNeverDeleted ==
    /\ [](\A t \in DOMAIN tickets : tickets[t].ticket_no = t)
    /\ [][/\ DOMAIN tickets \subseteq DOMAIN tickets'
          /\ \A t \in DOMAIN tickets :
                /\ tickets'[t].ticket_no = t
                /\ tickets'[t].vehicle = tickets[t].vehicle
                /\ tickets'[t].slot_no = tickets[t].slot_no
                /\ tickets'[t].entry_time = tickets[t].entry_time]_vars

\* a ticket was paid, its spot was taken again under a later ticket, and
\* free_slot was called after that: both tickets are on record
C17_Witness ==
    /\ lastOp.name = "free_slot"
    /\ \E t, u \in DOMAIN tickets :
          /\ t < u
          /\ tickets[t].status = "PAID"
          /\ tickets[u].slot_no = tickets[t].slot_no

\* ---- C18 ---------------------------------------------------------------
\* C18: add_parking_spot with an id that is registered already puts the new
\* spot in the place of the old one: get_spot(id) is the new spot, free and
\* of the new kind, whatever stood in the old one; the registered ids, their
\* order and every other spot are as before; free_slot(id) has nothing to
\* clear and park_vehicle of a vehicle the new spot fits finds a spot no
\* later than it. add_entrance and add_exit with a registered id likewise
\* put the new object in the place of the old one and keep the ids.
C18_LastWriteWins ==
    /\ [][\A id \in SpotIds, kind \in SpotKinds :
            (AddParkingSpot(id, kind) /\ id \in DOMAIN spots) =>
                /\ get_spot(id)' = NewSpot(kind)
                /\ DOMAIN spots' = DOMAIN spots
                /\ spotOrder' = spotOrder
                /\ \A o \in DOMAIN spots \ {id} : spots'[o] = spots[o]
                /\ tickets' = tickets
                /\ free_slot(id)' = spots'
                /\ \A v \in Vehicles : can_fit(KindOf(v), kind) =>
                      /\ FirstFit(v, 1)' # 0
                      /\ FirstFit(v, 1)' <= PosOf(id)]_vars
    /\ [][\A id \in SpotIds :
            (AddEntrance(id) /\ id \in DOMAIN entrances) =>
                /\ entrances'[id] = NewGate(id, nAdds')
                /\ entrances'[id] # entrances[id]
                /\ DOMAIN entrances' = DOMAIN entrances
                /\ \A o \in DOMAIN entrances \ {id} : entrances'[o] = entrances[o]]_vars
    /\ [][\A id \in SpotIds :
            (AddExit(id) /\ id \in DOMAIN exits) =>
                /\ exits'[id] = NewGate(id, nAdds')
                /\ exits'[id] # exits[id]
                /\ DOMAIN exits' = DOMAIN exits
                /\ \A o \in DOMAIN exits \ {id} : exits'[o] = exits[o]]_vars

\* a spot was registered over an occupied spot of the same id: the ticket of
\* the old occupant is still Issued and the only spot of the lot is free
C18_Witness ==
    /\ lastOp.name = "add_parking_spot"
    /\ nAdds > Len(spotOrder)
    /\ Len(spotOrder) = 1
    /\ \E t \in DOMAIN tickets :
          /\ tickets[t].status = "ISSUED"
          /\ tickets[t].slot_no = spotOrder[1]
          /\ spots[spotOrder[1]].is_free

\* an Entrance was registered over an Entrance of the same id
C18_GateOverwritten ==
    /\ lastOp.name = "add_entrance"
    /\ DOMAIN entrances = {1}
    /\ entrances[1].obj = 2

\* ---- C19 ---------------------------------------------------------------
\* C19: a SortingContext exists only if it was constructed with a
\* SortingStrategy (any other argument, None included, raises ValueError);
\* set_sorting_strategy with a SortingStrategy installs it, with anything
\* else it raises ValueError and the strategy held before stays; sort raises
\* RuntimeError when no strategy is held and otherwise leaves in the list
\* what the held strategy makes of it.
C19_ContextErrors ==
    /\ [](/\ sortCtx = "none" => sortErr = "ValueError"
          /\ sortCtx = "live" => IsSortingStrategy(strategy))
    /\ [][\A s \in Strategies \cup NotStrategies :
            SetSortingStrategy(s) =>
                /\ array' = array
                /\ IF IsSortingStrategy(s)
                   THEN strategy' = s /\ sortErr' = None
                   ELSE strategy' = strategy /\ sortErr' = "ValueError"]_vars
    /\ [][Sort =>
            IF strategy = None
            THEN sortErr' = "RuntimeError" /\ array' = array
            ELSE /\ sortErr' = None
                 /\ array' = StrategySort(strategy, array)
                 /\ IsSorted(Keys(array'))]_vars

\* after a bubble sort the strategy was changed and a later
\* set_sorting_strategy with a non-strategy was rejected
C19_Witness ==
    /\ sortCtx = "live"
    /\ sortErr = "ValueError"
    /\ sortStat.by = "BUBBLE"
    /\ strategy = "MERGE"
    /\ array # input

\* ---- C20 ---------------------------------------------------------------
\* C20: merge sort is stable: elements with equal keys stand in its output
\* in the order they had in the input, for every list and for the list a
\* SortingContext.sort call with the merge strategy leaves behind.
IdxIn(a, e) == CHOOSE p \in 1..Len(a) : a[p] = e

Stable(out, in) ==
    /\ SameMultiset(out, in)
    /\ \A i, j \in 1..Len(out) :
          (i < j /\ out[i].key = out[j].key)
              => IdxIn(in, out[i]) < IdxIn(in, out[j])

C20_MergeSortStable ==
    /\ Stable(MergeSort(input), input)
    /\ sortStat.by = "MERGE" => Stable(array, input)

\* a merge sort has reordered a list in which the two halves hold an
\* element of the same key
C20_Witness ==
    /\ sortStat.by = "MERGE"
    /\ array # input
    /\ \E i, j \in 1..Len(input) :
          /\ i <= Len(input) \div 2
          /\ Len(input) \div 2 < j
          /\ input[i].key = input[j].key

\* ---- C21 ---------------------------------------------------------------
\* the list after the first k passes of a bubble sort that never breaks
RECURSIVE AfterPasses(_, _)
AfterPasses(a, k) ==
    IF k = 0 THEN a
    ELSE BubbleInner(AfterPasses(a, k - 1), Len(a) - k, 0, 0).arr

\* the number of swaps of pass k
SwapsInPass(a, k) == BubbleInner(AfterPasses(a, k - 1), Len(a) - k, 0, 0).swaps

\* the bubble sort of a stops with the first pass that swaps nothing
StopsAtFirstCleanPass(a) ==
    LET r == BubbleSort(a) IN
    /\ r.passes <= Len(a)
    /\ \A k \in 1..(r.passes - 1) : SwapsInPass(a, k) > 0
    /\ r.passes < Len(a) => SwapsInPass(a, r.passes) = 0

\* C21 as stated: a bubble sort of a list in non-decreasing order makes
\* exactly one pass and no swap and leaves the list as it is; every bubble
\* sort stops with the first pass that swaps nothing.
C21_SortedOnePassAsStated ==
    LET r == BubbleSort(input) IN
    /\ IsSorted(Keys(input)) =>
          /\ r.passes = 1
          /\ r.swaps = 0
          /\ r.arr = input
    /\ StopsAtFirstCleanPass(input)

\* C21: a bubble sort of a non-empty list in non-decreasing order makes
\* exactly one pass and no swap and leaves the list as it is; of the empty
\* list it makes no pass; every bubble sort stops with the first pass that
\* swaps nothing, the n-th pass at the latest; and this is what a
\* SortingContext.sort call with the bubble strategy does.
C21_SortedOnePass ==
    LET r == BubbleSort(input) IN
    /\ IsSorted(Keys(input)) =>
          /\ r.passes = (IF Len(input) = 0 THEN 0 ELSE 1)
          /\ r.swaps = 0
          /\ r.arr = input
    /\ StopsAtFirstCleanPass(input)
    /\ sortStat.by = "BUBBLE" =>
          /\ sortStat.passes = r.passes
          /\ sortStat.swaps = r.swaps
          /\ array = r.arr

\* a bubble sort call on a sorted list of three or more elements has made
\* one pass and no swap
C21_Witness ==
    /\ sortStat.by = "BUBBLE"
    /\ Len(input) >= 3
    /\ IsSorted(Keys(input))
    /\ sortStat.passes = 1
    /\ sortStat.swaps = 0
    /\ array = input

\* ---- C22 ---------------------------------------------------------------
\* the elements of a at the 0-based indices low..high, as a list
Range(a, low, high) == SubSeq(a, low + 1, high + 1)

\* C22: for every range low <= high of the list, _partition returns an
\* index p of the range; afterwards the element that was last in the range
\* stands at p, the elements of the range before p are less than it, those
\* from p on are not less than it, the range holds the elements it held and
\* the list is as it was outside the range.
C22_PartitionPlacesPivot ==
    \A low \in 0..(Len(input) - 1) : \A high \in low..(Len(input) - 1) :
        LET r     == _partition(input, low, high)
            p     == r.pi
            pivot == input[high + 1]
        IN /\ p \in low..high
           /\ Len(r.arr) = Len(input)
           /\ r.arr[p + 1] = pivot
           /\ \A k \in low..(p - 1) : r.arr[k + 1].key < pivot.key
           /\ \A k \in p..high : r.arr[k + 1].key >= pivot.key
           /\ SameMultiset(Range(r.arr, low, high), Range(input, low, high))
           /\ \A k \in 0..(Len(input) - 1) :
                 (k < low \/ k > high) => r.arr[k + 1] = input[k + 1]

\* a quick sort call has reordered a list of four elements whose last
\* element has an equal before it, a smaller and a larger one
C22_Witness ==
    /\ sortStat.by = "QUICK"
    /\ Len(input) = 4
    /\ array # input
    /\ \E i, j, k \in 1..3 :
          /\ input[i].key = input[4].key
          /\ input[j].key < input[4].key
          /\ input[k].key > input[4].key

\* ---- C23 ---------------------------------------------------------------
\* every call of the recursion of _merge_sort(a) is on a list, and a list
\* of two or more elements is split in two shorter non-empty halves
RECURSIVE MergeShrinks(_)
MergeShrinks(a) ==
    LET n   == Len(a)
        mid == n \div 2
    IN n > 1 =>
          /\ mid >= 1 /\ mid < n
          /\ MergeShrinks(SubSeq(a, 1, mid))
          /\ MergeShrinks(SubSeq(a, mid + 1, n))

\* every call of the recursion of _quick_sort(a, low, high) with low < high
\* is on a range inside the list, and its two sub-ranges leave out the
\* index _partition returned, which lies in the range
RECURSIVE QuickShrinks(_, _, _)
QuickShrinks(a, low, high) ==
    low < high =>
        /\ 0 <= low /\ high <= Len(a) - 1
        /\ LET p == _partition(a, low, high) IN
           /\ p.pi \in low..high
           /\ QuickShrinks(p.arr, low, p.pi - 1)
           /\ QuickShrinks(_quick_sort(p.arr, low, p.pi - 1), p.pi + 1, high)

\* the recursion of the three sorts goes to smaller arguments and stays
\* inside the list: at most n passes of bubble sort, each up to the last
\* index; shorter halves in merge sort; smaller ranges in quick sort
C23_RecursionShrinks ==
    /\ BubbleSort(input).passes <= Len(input)
    /\ Len(BubbleSort(input).arr) = Len(input)
    /\ MergeShrinks(input)
    /\ Len(MergeSort(input)) = Len(input)
    /\ QuickShrinks(input, 0, Len(input) - 1)
    /\ Len(QuickSort(input)) = Len(input)

\* on a strictly increasing list every _quick_sort call opens the next one
\* on the range without its last element: as many open calls as elements
C23_SortedInputDepth ==
    (Len(input) >= 1 /\ \A i \in 1..(Len(input) - 1) : input[i].key < input[i + 1].key) =>
        QuickDepth(input, 0, Len(input) - 1) = Len(input)

\* C23: every sort call ends without an error on every list: the recursion
\* goes to smaller arguments inside the list, and the calls it has open at
\* once stay within what the interpreter allows.
C23_SortsTerminate ==
    /\ C23_RecursionShrinks
    /\ MergeDepth(input) <= MaxFrames
    /\ QuickDepth(input, 0, Len(input) - 1) <= MaxFrames

\* C24: set_weather with a value that differs from the stored weather (the
\* first call, when none is stored, included) stores it and calls update on
\* every subscribed observer exactly once and on no other; set_weather with
\* the stored value calls update on nobody and changes nothing.
C24_SetWeatherNotifiesOnce ==
    [][\A w \in Weathers :
         SetWeather(w) =>
           IF stationWeather # w
           THEN /\ stationWeather' = w
                /\ \A o \in Receivers :
                     weatherLast'.updates[o] = IF o \in stationObservers THEN 1 ELSE 0
                /\ \A o \in stationObservers : receiverWeather'[o] = w
           ELSE /\ weatherLast'.updates = [o \in Receivers |-> 0]
                /\ UNCHANGED <<stationWeather, stationObservers, receiverWeather>>]_vars

\* a change of the weather reached two subscribers, after an earlier weather
C24_Witness ==
    /\ weatherLast.name = "set_weather"
    /\ stationWeather = weatherLast.arg
    /\ Cardinality({o \in Receivers : weatherLast.updates[o] = 1}) >= 2
    /\ \E o \in Receivers : receiverWeather[o] \notin {None, stationWeather}

\* C25: unsubscribe takes the observer out of the set; an observer that is
\* not subscribed gets no update from set_weather and keeps the weather it
\* stored; unsubscribing an observer that is not
\* subscribed changes nothing; subscribing a subscribed observer leaves the
\* set as it is, and no call updates an observer twice.
C25_UnsubscribedGetsNothing ==
    [][/\ \A o \in Receivers \ stationObservers : \A w \in Weathers :
            SetWeather(w) => /\ weatherLast'.updates[o] = 0
                             /\ receiverWeather'[o] = receiverWeather[o]
       /\ \A o \in Receivers :
            receiverWeather'[o] # receiverWeather[o]
              => o \in stationObservers /\ weatherLast'.name = "set_weather"
       /\ \A o \in Receivers : Unsubscribe(o) => o \notin stationObservers'
       /\ \A o \in Receivers \ stationObservers :
            Unsubscribe(o) => UNCHANGED <<stationWeather, stationObservers, receiverWeather>>
       /\ \A o \in stationObservers : Subscribe(o) => UNCHANGED stationObservers
       /\ \A o \in Receivers : weatherLast'.updates[o] <= 1]_vars

\* a receiver that was subscribed and got a weather is no longer subscribed,
\* and the weather changed since for a receiver that still is
C25_Witness ==
    /\ weatherLast.name = "set_weather"
    /\ stationWeather = weatherLast.arg
    /\ \E o \in Receivers \ stationObservers :
         receiverWeather[o] \notin {None, stationWeather}
    /\ \E o \in stationObservers : weatherLast.updates[o] = 1

\* C26: the quantity of a product that starts non-negative is never negative
\* under add_stock and remove_stock with non-negative amounts, and a
\* remove_stock of more than the stock sets the quantity to 0.
C26_QuantityNeverNegative ==
    /\ [](\A p \in Products : quantity[p] >= 0)
    /\ [][\A p \in Products, n \in 0..MaxAmount :
            RemoveStock(p, n) =>
              quantity'[p] = IF n > quantity[p] THEN 0 ELSE quantity[p] - n]_vars

\* a remove_stock of more than the stock there was
C26_Witness ==
    /\ stockLast.name = "remove_stock"
    /\ stockLast.was > 0
    /\ stockLast.arg > stockLast.was
    /\ quantity[stockLast.product] = 0

\* C27: add_stock on a product with quantity 0 that raises it, and
\* remove_stock that leaves quantity 0, send one notification to every
\* customer subscribed to that product and none to anyone else; add_stock on
\* a product with quantity > 0 and remove_stock leaving quantity > 0 send
\* none.
C27_StockNotifications ==
    [][\A p \in Products, n \in 0..MaxAmount :
         LET only == [c \in Customers |-> IF c \in observers[p] THEN 1 ELSE 0]
             none == [c \in Customers |-> 0]
         IN /\ AddStock(p, n) =>
                 /\ (quantity[p] = 0 /\ n > 0) => stockLast'.updates = only
                 /\ quantity[p] > 0 => stockLast'.updates = none
            /\ RemoveStock(p, n) =>
                 /\ quantity'[p] = 0 => stockLast'.updates = only
                 /\ quantity'[p] > 0 => stockLast'.updates = none]_vars

\* a product with a subscriber ran out while the other product's subscriber,
\* who is not subscribed to it, got nothing
C27_Witness ==
    /\ stockLast.name = "remove_stock"
    /\ stockLast.msg = "out_of_stock"
    /\ \E c \in Customers, d \in Customers, p \in Products :
         /\ stockLast.product # p
         /\ c \in observers[stockLast.product] /\ stockLast.updates[c] = 1
         /\ d \notin observers[stockLast.product] /\ d \in observers[p]
         /\ stockLast.updates[d] = 0

\* ---- pizza shop: helpers of the properties -----------------------------
\* the sum of the prices of the items of a sequence, from its first
RECURSIVE PriceSum(_)
PriceSum(items) ==
    IF items = <<>> THEN 0 ELSE price(Head(items)) + PriceSum(Tail(items))

\* the sequences that hold the items of seq in another order
Reorderings(seq) ==
    LET n == Len(seq)
    IN {[i \in 1..n |-> seq[f[i]]] :
          f \in {g \in [1..n -> 1..n] : \A i, j \in 1..n : i # j => g[i] # g[j]}}

\* a pizza made by hand, or the pizza of a cart item or of an ordered item
PizzasMade ==
    (IF pizza = <<>> THEN {} ELSE {pizza})
      \cup {cart[i].food : i \in 1..Len(cart)}
      \cup UNION {{orders[k].items[i].food : i \in 1..Len(orders[k].items)} :
                    k \in 1..Len(orders)}

\* C28: the cost of a pizza is the price of its size plus the prices of all
\* the add-ons wrapped around it, each as often as it was applied; the same
\* add-ons applied in another order give the same cost; the description is
\* the size's, then the add-ons' in the order they were applied.
C28_CostAdditive ==
    \A p \in PizzasMade :
        /\ p[1] \in Sizes
        /\ get_cost(p) = price(p[1]) + PriceSum(Tail(p))
        /\ \A t \in Reorderings(Tail(p)) : get_cost(<<p[1]>> \o t) = get_cost(p)
        /\ get_description(p) = [i \in 1..Len(p) |-> desc(p[i])]

\* a pizza with two add-ons of different prices around its size
C28_Witness ==
    /\ Len(pizza) = 3
    /\ pizza[2] # pizza[3]
    /\ price(pizza[2]) # price(pizza[3])
    /\ get_cost(pizza) = price(pizza[1]) + price(pizza[2]) + price(pizza[3])

\* the cost of every line of an order, summed from the last line
RECURSIVE LineSum(_, _)
LineSum(items, n) ==
    IF n = 0 THEN 0
    ELSE LineSum(items, n - 1)
           + (price(items[n].food[1]) + PriceSum(Tail(items[n].food)))
               * items[n].quantity

\* C29: the total of an order is the sum of cost x quantity over its items
\* plus one delivery fee of 399 cents, 399 cents for an order without items;
\* the ids of the orders are 1, 2, 3, ... in the order of their creation, and
\* an order keeps its id.
C29_OrderTotalAndIds ==
    /\ [](/\ \A k \in 1..Len(orders) :
               /\ _calculate_total(orders[k].items)
                    = LineSum(orders[k].items, Len(orders[k].items)) + 399
               /\ orders[k].items = <<>> => _calculate_total(orders[k].items) = 399
               /\ orders[k].id = k
          /\ next_id = Len(orders) + 1)
    /\ [][\A k \in 1..Len(orders) :
            Len(orders') >= k /\ orders'[k].id = orders[k].id]_vars

\* two orders were made, one of two items and one of none
C29_Witness ==
    /\ Len(orders) = 2
    /\ \E k \in 1..2 : Len(orders[k].items) = 2
                       /\ orders[k].items[1].quantity # orders[k].items[2].quantity
    /\ \E k \in 1..2 : orders[k].items = <<>>
    /\ orders[2].id = 2

\* C30: every ticket with status ISSUED has its spot occupied by the
\* ticket's vehicle, whatever tickets were validated, paid ones included.
C30_IssuedSpotHeld ==
    \A t \in DOMAIN tickets :
        tickets[t].status = "ISSUED"
          => /\ ~spots[tickets[t].slot_no].is_free
             /\ spots[tickets[t].slot_no].vehicle = tickets[t].vehicle

\* C31: no vehicle occupies more than one spot and no vehicle has more than
\* one ticket with status ISSUED.
C31_OneActiveTicket ==
    \A v \in Vehicles :
        /\ Cardinality({id \in DOMAIN spots : spots[id].vehicle = v}) <= 1
        /\ Cardinality({t \in DOMAIN tickets :
                           tickets[t].vehicle = v /\ tickets[t].status = "ISSUED"}) <= 1

\* C32: calculate does not decrease when the elapsed time grows; a positive
\* elapsed time costs at least 400 cents, and 0 is the fee of no positive
\* elapsed time; once validate_ticket has returned, a ticket paid after a
\* positive time has an amount of at least 400 cents.
C32_FeeMonotone ==
    /\ feeResult # NoneInt =>
          /\ \A h \in (-MinFeeTicks)..MaxFeeTicks :
                /\ h <= feeHours => calculate(h, feeVehicle, feeSpot) <= feeResult
                /\ h >= feeHours => calculate(h, feeVehicle, feeSpot) >= feeResult
          /\ feeHours > 0 => feeResult >= 400
          /\ feeResult = 0 => feeHours <= 0
    /\ exitPc = "idle" =>
          \A t \in DOMAIN tickets :
            (tickets[t].status = "PAID" /\ tickets[t].exit_time > tickets[t].entry_time)
              => tickets[t].amount >= 400

\* calculate has returned 400 cents for less than an hour
C32_Witness ==
    /\ feeResult = 400
    /\ feeHours > 0
    /\ feeHours < TicksPerHour

\* C33: a SortingContext that exists holds a SortingStrategy in every state,
\* whatever set_sorting_strategy calls were accepted or rejected, and no
\* call of sort ends in the RuntimeError 'No sorting strategy set'.
C33_StrategyAlwaysValid ==
    /\ [](sortCtx = "live" => strategy \in Strategies)
    /\ [](sortErr \notin {"RuntimeError", "AttributeError"})
    /\ [][Sort => strategy # None /\ sortErr' = None]_vars

\* a quick sort was made, and a set_sorting_strategy call was rejected after
\* it: the quick sort strategy is still held
C33_Witness ==
    /\ sortCtx = "live"
    /\ sortErr = "ValueError"
    /\ sortStat.by = "QUICK"
    /\ strategy = "QUICK"

\* C34: remove_stock sends 'out of stock' only when it takes the quantity
\* from a positive value to 0, add_stock sends 'back in stock' only when it
\* takes the quantity from 0 to a positive value, and the last message of a
\* product before an 'out of stock' message is not 'out of stock'.
C34_NotificationsFollowStock ==
    [][\A p \in Products, n \in 0..MaxAmount :
         /\ (RemoveStock(p, n) /\ stockLast'.msg = "out_of_stock")
               => /\ quantity[p] > 0 /\ quantity'[p] = 0
                  /\ lastMsg[p] # "out_of_stock"
         /\ (AddStock(p, n) /\ stockLast'.msg = "back_in_stock")
               => quantity[p] = 0 /\ quantity'[p] > 0]_vars

\* C35 as stated: once the station has a weather, every subscribed receiver
\* stores the station's weather.
C35_SubscribedEqualAsStated ==
    stationWeather # None =>
        \A o \in stationObservers : receiverWeather[o] = stationWeather

\* C35 amended: a set_weather call that changes the weather leaves every
\* subscribed receiver with the station's weather, and a subscribed receiver
\* that stores the station's weather still does after any call that leaves
\* it subscribed.
C35_SubscribedInSync ==
    [][/\ \A w \in Weathers :
            (SetWeather(w) /\ stationWeather # w)
              => \A o \in stationObservers : receiverWeather'[o] = stationWeather'
       /\ \A o \in stationObservers \cap stationObservers' :
            receiverWeather[o] = stationWeather
              => receiverWeather'[o] = stationWeather']_vars

\* after a call that notified nobody, a subscribed receiver still stores the
\* station's weather, next to a subscribed receiver that does not
C35_Witness ==
    /\ stationWeather # None
    /\ \E o \in stationObservers :
         receiverWeather[o] = stationWeather /\ weatherLast.updates[o] = 0
    /\ \E o \in stationObservers : receiverWeather[o] # stationWeather

====
